---------------------------- MODULE Spec2Model ----------------------------
(***************************************************************************)
(* Transfer protocol engine of file-transfer: the byte codec, the frame    *)
(* codec, the packet layer, the connection runtime and the sender and      *)
(* receiver state machines.                                                *)
(*                                                                         *)
(* Representation of machine integers.  TLC's integers are 32 bits wide,   *)
(* so a uint32_t is a pair <<hi, lo>> of 16-bit halves and a uint64_t is   *)
(* four 16-bit words <<w3, w2, w1, w0>>, most significant first.  A uint8  *)
(* is 0..255 and a uint16 is 0..65535.  Byte strings (std::span, paths,    *)
(* file contents) are sequences of uint8.                                  *)
(***************************************************************************)
EXTENDS Integers, Sequences, FiniteSets, TLC

\* ------------------------------------------------------------------------
\* Bounds of the model
\* ------------------------------------------------------------------------

\* Longest raw frame payload offered to the reassembler.
MaxPayload == 3

\* Number of packets the peer of a connection under test writes.
MaxPeerPackets == 5

\* Largest local file (in bytes) on the sender's disk.
MaxFileSize == 3

\* Longest listing the sender is started with.
MaxEntries == 2

\* sender::max_chunk_size is 128 KiB in the source (Connection.cpp:10); the
\* model reads files in blocks of this many bytes so that several blocks per
\* file occur.
max_chunk_size == 2

\* ------------------------------------------------------------------------
\* Sequences of bytes
\* ------------------------------------------------------------------------

Byte == 0..255

Take(s, n) == SubSeq(s, 1, IF n < Len(s) THEN n ELSE Len(s))

Drop(s, n) == SubSeq(s, n + 1, Len(s))

Max(a, b) == IF a >= b THEN a ELSE b

Min(a, b) == IF a <= b THEN a ELSE b

\* ------------------------------------------------------------------------
\* PrimitiveConverter (big-endian conversions)
\* ------------------------------------------------------------------------

u8_to_bytes(v) == <<v>>

u16_to_bytes(v) == <<(v \div 256) % 256, v % 256>>

u32_to_bytes(v) == <<(v[1] \div 256) % 256, v[1] % 256, (v[2] \div 256) % 256, v[2] % 256>>

u64_to_bytes(v) == u32_to_bytes(<<v[1], v[2]>>) \o u32_to_bytes(<<v[3], v[4]>>)

bytes_to_u8(b) == b[1]

bytes_to_u16(b) == b[1] * 256 + b[2]

bytes_to_u32(b) == <<b[1] * 256 + b[2], b[3] * 256 + b[4]>>

bytes_to_u64(b) == <<b[1] * 256 + b[2], b[3] * 256 + b[4], b[5] * 256 + b[6], b[7] * 256 + b[8]>>

\* Arithmetic on the wide integers, for the values the model computes with.
U32(n) == <<n \div 65536, n % 65536>>

U64(n) == <<0, 0, n \div 65536, n % 65536>>

\* a < b on words compared most significant first (any equal length).
RECURSIVE WordsLess(_, _)
WordsLess(a, b) == IF a = <<>> THEN FALSE ELSE IF a[1] # b[1] THEN a[1] < b[1] ELSE WordsLess(Tail(a), Tail(b))

WordsLeq(a, b) == a = b \/ WordsLess(a, b)

\* The value of a uint32_t that is known to be below 2^31.
U32ToNat(v) == v[1] * 65536 + v[2]

\* ------------------------------------------------------------------------
\* BinaryReader: the state of a reader is the span it has left.
\* Each read returns [ok, v, rest]; a failed read consumes nothing.
\* ------------------------------------------------------------------------

remaining_size(buffer) == Len(buffer)

read_bytes(buffer, size) == IF Len(buffer) < size THEN [ok |-> FALSE, v |-> <<>>, rest |-> buffer] ELSE [ok |-> TRUE, v |-> Take(buffer, size), rest |-> Drop(buffer, size)]

read_u8(buffer) == IF Len(buffer) < 1 THEN [ok |-> FALSE, v |-> 0, rest |-> buffer] ELSE [ok |-> TRUE, v |-> bytes_to_u8(Take(buffer, 1)), rest |-> Drop(buffer, 1)]

read_u16(buffer) == IF Len(buffer) < 2 THEN [ok |-> FALSE, v |-> 0, rest |-> buffer] ELSE [ok |-> TRUE, v |-> bytes_to_u16(Take(buffer, 2)), rest |-> Drop(buffer, 2)]

read_u32(buffer) == IF Len(buffer) < 4 THEN [ok |-> FALSE, v |-> U32(0), rest |-> buffer] ELSE [ok |-> TRUE, v |-> bytes_to_u32(Take(buffer, 4)), rest |-> Drop(buffer, 4)]

read_u64(buffer) == IF Len(buffer) < 8 THEN [ok |-> FALSE, v |-> U64(0), rest |-> buffer] ELSE [ok |-> TRUE, v |-> bytes_to_u64(Take(buffer, 8)), rest |-> Drop(buffer, 8)]

\* BinaryWriter: the writer appends to the buffer it was given.
write_bytes(buffer, bytes) == buffer \o bytes

write_u8(buffer, v) == write_bytes(buffer, u8_to_bytes(v))

write_u16(buffer, v) == write_bytes(buffer, u16_to_bytes(v))

write_u32(buffer, v) == write_bytes(buffer, u32_to_bytes(v))

write_u64(buffer, v) == write_bytes(buffer, u64_to_bytes(v))

\* ------------------------------------------------------------------------
\* net::framing
\* ------------------------------------------------------------------------

\* 0xf150ccc2
frame_header_magic == <<61776, 52418>>

frame_header_size == 8

\* 8 MB
frame_max_size == 8 * 1024 * 1024

\* std::numeric_limits<uint32_t>::max()
invalid_size == <<65535, 65535>>

\* FrameReceiver.  buffer is the valid prefix buffer[0, used_size); capacity
\* is buffer.size(); pending_frame_size is a uint32_t.
FrameReceiverInit == [buffer |-> <<>>, capacity |-> 0, receive_buffer_size |-> 16 * 1024, pending_frame_size |-> invalid_size]

used_size(fr) == Len(fr.buffer)

\* prepare_receive_buffer sizing the buffer to the tail plus the window.
prepare_receive_buffer_Resizes(fr) == [fr EXCEPT !.capacity = used_size(fr) + fr.receive_buffer_size]

prepare_receive_buffer(fr) == LET remaining == fr.capacity - used_size(fr) IN IF remaining < fr.receive_buffer_size THEN [fr EXCEPT !.capacity = fr.capacity + (fr.receive_buffer_size - remaining)] ELSE fr

commit_received_data(fr, data) == [fr EXCEPT !.buffer = fr.buffer \o data]

\* FrameReceiver::receive with a callback that stores `data` in the span.
receive(fr, data) == LET p == prepare_receive_buffer(fr) IN IF Len(data) > 0 THEN commit_received_data(p, data) ELSE p

\* FrameReceiver::update without the magic check.
FrameReceiver_update_AnyMagic(fr) ==
  LET received_data == fr.buffer
      parse == fr.pending_frame_size = invalid_size /\ Len(received_data) >= frame_header_size
      magic == read_u32(received_data)
      frame_size == read_u32(magic.rest)
      bad_magic == ~magic.ok
      bad_size == ~frame_size.ok \/ WordsLeq(frame_size.v, U32(frame_header_size)) \/ WordsLess(U32(frame_max_size), frame_size.v)
      fr2 == IF parse THEN [fr EXCEPT !.pending_frame_size = frame_size.v, !.receive_buffer_size = Max(fr.receive_buffer_size, U32ToNat(frame_size.v))] ELSE fr
  IN IF parse /\ bad_magic THEN [result |-> "MalformedStream", fr |-> fr, frame |-> <<>>]
     ELSE IF parse /\ bad_size THEN [result |-> "MalformedStream", fr |-> fr, frame |-> <<>>]
     ELSE IF fr2.pending_frame_size # invalid_size /\ Len(received_data) >= U32ToNat(fr2.pending_frame_size)
          THEN [result |-> "ReceivedFrame", fr |-> fr2, frame |-> SubSeq(received_data, frame_header_size + 1, U32ToNat(fr2.pending_frame_size))]
          ELSE [result |-> "NeedMoreData", fr |-> fr2, frame |-> <<>>]

\* FrameReceiver::update accepting a frame of the header alone.
FrameReceiver_update_HeaderOnly(fr) ==
  LET received_data == fr.buffer
      parse == fr.pending_frame_size = invalid_size /\ Len(received_data) >= frame_header_size
      magic == read_u32(received_data)
      frame_size == read_u32(magic.rest)
      bad_magic == ~magic.ok \/ magic.v # frame_header_magic
      bad_size == ~frame_size.ok \/ WordsLess(frame_size.v, U32(frame_header_size)) \/ WordsLess(U32(frame_max_size), frame_size.v)
      fr2 == IF parse THEN [fr EXCEPT !.pending_frame_size = frame_size.v, !.receive_buffer_size = Max(fr.receive_buffer_size, U32ToNat(frame_size.v))] ELSE fr
  IN IF parse /\ bad_magic THEN [result |-> "MalformedStream", fr |-> fr, frame |-> <<>>]
     ELSE IF parse /\ bad_size THEN [result |-> "MalformedStream", fr |-> fr, frame |-> <<>>]
     ELSE IF fr2.pending_frame_size # invalid_size /\ Len(received_data) >= U32ToNat(fr2.pending_frame_size)
          THEN [result |-> "ReceivedFrame", fr |-> fr2, frame |-> SubSeq(received_data, frame_header_size + 1, U32ToNat(fr2.pending_frame_size))]
          ELSE [result |-> "NeedMoreData", fr |-> fr2, frame |-> <<>>]

\* FrameReceiver::update: [result, fr, frame]
FrameReceiver_update(fr) ==
  LET received_data == fr.buffer
      parse == fr.pending_frame_size = invalid_size /\ Len(received_data) >= frame_header_size
      magic == read_u32(received_data)
      frame_size == read_u32(magic.rest)
      bad_magic == ~magic.ok \/ magic.v # frame_header_magic
      bad_size == ~frame_size.ok \/ WordsLeq(frame_size.v, U32(frame_header_size)) \/ WordsLess(U32(frame_max_size), frame_size.v)
      fr2 == IF parse THEN [fr EXCEPT !.pending_frame_size = frame_size.v, !.receive_buffer_size = Max(fr.receive_buffer_size, U32ToNat(frame_size.v))] ELSE fr
  IN IF parse /\ bad_magic THEN [result |-> "MalformedStream", fr |-> fr, frame |-> <<>>]
     ELSE IF parse /\ bad_size THEN [result |-> "MalformedStream", fr |-> fr, frame |-> <<>>]
     ELSE IF fr2.pending_frame_size # invalid_size /\ Len(received_data) >= U32ToNat(fr2.pending_frame_size)
          THEN [result |-> "ReceivedFrame", fr |-> fr2, frame |-> SubSeq(received_data, frame_header_size + 1, U32ToNat(fr2.pending_frame_size))]
          ELSE [result |-> "NeedMoreData", fr |-> fr2, frame |-> <<>>]

\* discard_frame emptying the buffer, the bytes after the frame included.
FrameReceiver_discard_frame_DropsAll(fr) ==
  IF fr.pending_frame_size # invalid_size /\ Len(fr.buffer) >= U32ToNat(fr.pending_frame_size)
  THEN [fr EXCEPT !.buffer = <<>>, !.pending_frame_size = invalid_size]
  ELSE fr

FrameReceiver_discard_frame(fr) ==
  IF fr.pending_frame_size # invalid_size /\ Len(fr.buffer) >= U32ToNat(fr.pending_frame_size)
  THEN [fr EXCEPT !.buffer = Drop(fr.buffer, U32ToNat(fr.pending_frame_size)), !.pending_frame_size = invalid_size]
  ELSE fr

\* FrameSender::prepare: the scratch buffer after the header was reserved.
FrameSender_prepare == write_u32(write_u32(<<>>, frame_header_magic), invalid_size)

\* FrameSender::finalize writing the payload's length where the frame's belongs.
FrameSender_finalize_PayloadLength(buffer) ==
  LET frame_size == Len(buffer)
  IN IF frame_size <= frame_header_size \/ frame_size > frame_max_size THEN <<>>
     ELSE Take(buffer, 4) \o u32_to_bytes(U32(frame_size - frame_header_size)) \o Drop(buffer, 8)

\* FrameSender::finalize with no upper limit.
FrameSender_finalize_NoLimit(buffer) ==
  LET frame_size == Len(buffer)
  IN IF frame_size <= frame_header_size THEN <<>>
     ELSE Take(buffer, 4) \o u32_to_bytes(U32(frame_size)) \o Drop(buffer, 8)

\* FrameSender::finalize: the frame, or the empty span.
FrameSender_finalize(buffer) ==
  LET frame_size == Len(buffer)
  IN IF frame_size <= frame_header_size \/ frame_size > frame_max_size THEN <<>>
     ELSE Take(buffer, 4) \o u32_to_bytes(U32(frame_size)) \o Drop(buffer, 8)

\* ------------------------------------------------------------------------
\* net::PacketID and the packet layer
\* ------------------------------------------------------------------------

PacketID_Invalid == 0

PacketID_ReceiverHello == 1

PacketID_SenderHello == 2

PacketID_Acknowledged == 3

PacketID_CreateDirectory == 4

PacketID_CreateFile == 5

PacketID_FileChunk == 6

PacketID_VerifyFile == 7

flag_compressed == 1

ReceiverHello == [id |-> PacketID_ReceiverHello]

SenderHello == [id |-> PacketID_SenderHello]

Acknowledged(accepted) == [id |-> PacketID_Acknowledged, accepted |-> accepted]

CreateDirectory(path) == [id |-> PacketID_CreateDirectory, path |-> path]

CreateFile(path, size, flags) == [id |-> PacketID_CreateFile, path |-> path, size |-> size, flags |-> flags]

FileChunk(data) == [id |-> PacketID_FileChunk, data |-> data]

VerifyFile(hash) == [id |-> PacketID_VerifyFile, hash |-> hash]

write_packet_id(writer, packet_id) == write_u16(writer, packet_id)

write_string(writer, string) == write_bytes(writer, string)

\* read_string: all that is left of the reader.
read_string(reader) == read_bytes(reader, remaining_size(reader))

\* serialize_packet(VerifyFile) is declared in ProtocolConnection.hpp and
\* called by the sender, but ProtocolConnection.cpp does not define it: the
\* encoding is the documented one (tag, then the 8-byte big-endian hash).
serialize_VerifyFile(writer, packet) == write_u64(write_packet_id(writer, PacketID_VerifyFile), packet.hash)

\* ProtocolConnection::serialize_packet, all overloads.
serialize_packet(writer, packet) ==
  CASE packet.id = PacketID_ReceiverHello -> write_packet_id(writer, PacketID_ReceiverHello)
    [] packet.id = PacketID_SenderHello -> write_packet_id(writer, PacketID_SenderHello)
    [] packet.id = PacketID_Acknowledged -> write_u8(write_packet_id(writer, PacketID_Acknowledged), IF packet.accepted THEN 1 ELSE 0)
    [] packet.id = PacketID_CreateDirectory -> write_string(write_packet_id(writer, PacketID_CreateDirectory), packet.path)
    [] packet.id = PacketID_CreateFile -> write_string(write_u64(write_packet_id(writer, PacketID_CreateFile), packet.size), packet.path)
    [] packet.id = PacketID_FileChunk -> write_bytes(write_packet_id(writer, PacketID_FileChunk), packet.data)
    [] packet.id = PacketID_VerifyFile -> serialize_VerifyFile(writer, packet)

\* The decoding half of ProtocolConnection::on_packet_received(BinaryReader):
\* [ok |-> TRUE, packet] when a typed packet is dispatched to the state
\* machine, [ok |-> FALSE, error] when protocol_error(error) is called instead.
Dispatch(reader, packet) == IF remaining_size(reader) = 0 THEN [ok |-> TRUE, packet |-> packet] ELSE [ok |-> FALSE, error |-> "failed to consume whole packet"]

deserialize_packet(reader0) ==
  LET id == read_u16(reader0)
      reader == id.rest
  IN IF ~id.ok THEN [ok |-> FALSE, error |-> "failed to deserialize packet id"]
     ELSE CASE id.v = PacketID_ReceiverHello -> Dispatch(reader, ReceiverHello)
            [] id.v = PacketID_SenderHello -> Dispatch(reader, SenderHello)
            [] id.v = PacketID_Acknowledged ->
                 LET accepted == read_u8(reader)
                 IN IF ~accepted.ok THEN [ok |-> FALSE, error |-> "failed to deserialize acknowledge packet"]
                    ELSE Dispatch(accepted.rest, Acknowledged(accepted.v # 0))
            [] id.v = PacketID_CreateDirectory ->
                 LET path == read_string(reader)
                 IN IF ~path.ok THEN [ok |-> FALSE, error |-> "failed to deserialize create directory packet"]
                    ELSE Dispatch(path.rest, CreateDirectory(path.v))
            [] id.v = PacketID_CreateFile ->
                 LET size == read_u64(reader)
                     path == read_string(size.rest)
                 IN IF ~size.ok THEN [ok |-> FALSE, error |-> "failed to deserialize create file packet size"]
                    ELSE IF ~path.ok THEN [ok |-> FALSE, error |-> "failed to deserialize create file packet path"]
                    ELSE Dispatch(path.rest, CreateFile(path.v, size.v, 0))
            [] id.v = PacketID_FileChunk ->
                 LET data == read_bytes(reader, remaining_size(reader))
                 IN IF ~data.ok THEN [ok |-> FALSE, error |-> "failed to deserialize file chunk packet"]
                    ELSE Dispatch(data.rest, FileChunk(data.v))
            [] OTHER -> [ok |-> FALSE, error |-> "invalid packet id"]

\* Connection::send_packet up to the socket: the frame that holds `packet`,
\* or the empty span when finalize() refuses it.
FramePacket(packet) == FrameSender_finalize(serialize_packet(FrameSender_prepare, packet))

\* A frame holding the raw payload P (prepare, write P, finalize).
FramePayload(P) == FrameSender_finalize(write_bytes(FrameSender_prepare, P))

\* ------------------------------------------------------------------------
\* Environment: hash, filesystem
\* ------------------------------------------------------------------------

Null == [none |-> TRUE]

\* Hasher::finalize over the bytes fed since reset().  XXH3 is taken to be
\* collision free: the digest packs the length and the bytes (injective for
\* up to 7 bytes, which the bounds stay below).
XXH3_64bits_digest(fed) == bytes_to_u64(<<Len(fed)>> \o [i \in 1..7 |-> IF i <= Len(fed) THEN fed[i] ELSE 0])

\* The receiver's configured destination directory.
receive_directory == <<82>>

Slash == 47

Colon == 58

\* std::string_view::find("::") != npos
\* Looking for "::" at the front of the path only.
ContainsColons_Leading(path) == Len(path) >= 2 /\ path[1] = Colon /\ path[2] = Colon

ContainsColons(path) == \E i \in 1..(Len(path) - 1) : path[i] = Colon /\ path[i + 1] = Colon

\* The proper ancestors of a path: its prefixes that end before a '/'.
Ancestors(path) == {Take(path, i - 1) : i \in {j \in 2..Len(path) : path[j] = Slash}}

\* The directory a path lies in (the receive directory for a bare name).
Parent(path) == LET cuts == {j \in 2..Len(path) : path[j] = Slash} IN IF cuts = {} THEN <<>> ELSE Take(path, (CHOOSE j \in cuts : \A k \in cuts : k <= j) - 1)

\* A disk is [dirs: set of paths, files: function from paths to contents].
fs_exists(fs, path) == path \in fs.dirs \/ path \in DOMAIN fs.files

fs_is_directory(fs, path) == path \in fs.dirs

\* std::filesystem::create_directories
fs_can_create_directories(fs, path) == path \notin DOMAIN fs.files /\ \A a \in Ancestors(path) : a \notin DOMAIN fs.files

fs_create_directories(fs, path) == [fs EXCEPT !.dirs = fs.dirs \cup {path} \cup Ancestors(path)]

\* base::File{path, "wb"} succeeds when the directory of path exists and
\* path is no directory; it creates or truncates the file.
fs_can_open_for_write(fs, path) == Parent(path) \in fs.dirs /\ path \notin fs.dirs

fs_put(fs, path, content) == [fs EXCEPT !.files = [q \in (DOMAIN fs.files) \cup {path} |-> IF q = path THEN content ELSE fs.files[q]]]

\* std::filesystem::remove of a file
fs_remove(fs, path) == [fs EXCEPT !.files = [q \in (DOMAIN fs.files) \ {path} |-> fs.files[q]]]

\* ------------------------------------------------------------------------
\* net::Connection and net::ProtocolConnection
\*
\* The operators below transform a context x = [c, fs, ...]:
\*   c         the connection object (net::Connection, ProtocolConnection
\*             and sender:: or receiver::Connection members)
\*   fs        the disk the connection works on
\*   out       the bytes handed to the socket by the running call
\*   sends     the number of socket send_all() calls made by the running call
\*   fail_at   the send_all() call of the running call that fails (0: none)
\*   fail_kind how it fails ("disconnected" or "error")
\*   fs_fail   whether the filesystem operations of the running call fail
\*   fsops     the number of filesystem operations of the running call that
\*             can fail
\*   ret       the value returned by the last operation
\*   ev        what the running call did, for the properties
\* ------------------------------------------------------------------------

Event(x, e) == [x EXCEPT !.ev = Append(x.ev, e)]

Return(x, v) == [x EXCEPT !.ret = v]

FsOp(x) == [x EXCEPT !.fsops = x.fsops + 1]

set_not_alive(x) == Event([x EXCEPT !.c.alive = FALSE], [e |-> "set_not_alive"])

\* cleanup dropping the download and leaving its file on the disk.
cleanup_LeavesFile(x) ==
  IF x.c.download # Null
  THEN Event([x EXCEPT !.c.download = Null], [e |-> "cleanup", path |-> x.c.download.fs_path])
  ELSE x

\* receiver::Connection::cleanup
cleanup(x) ==
  IF x.c.download # Null
  THEN Event([x EXCEPT !.c.download = Null, !.fs = fs_remove(x.fs, x.c.download.fs_path)], [e |-> "cleanup", path |-> x.c.download.fs_path])
  ELSE x

on_error(x) == IF x.c.kind = "receiver" THEN cleanup(x) ELSE x

\* on_protocol_error leaving the download as it is.
on_protocol_error_KeepsFile(x) == x

on_protocol_error(x) == IF x.c.kind = "receiver" THEN cleanup(x) ELSE x

on_disconnected(x) == IF x.c.kind = "receiver" THEN cleanup(x) ELSE x

\* Connection::error
error(x, type) == on_error(Event(set_not_alive(x), [e |-> "error", type |-> type]))

\* Connection::disconnect
disconnect(x) == on_disconnected(Event(set_not_alive(x), [e |-> "disconnected"]))

\* ProtocolConnection::protocol_error
protocol_error(x, description) == on_protocol_error(Event(set_not_alive(x), [e |-> "protocol_error", description |-> description]))

\* Connection::send_packet_internal: socket->send_all(data)
send_packet_internal(x, data, packet) ==
  LET y == [x EXCEPT !.sends = x.sends + 1]
  IN IF y.sends = y.fail_at
     THEN Return(IF y.fail_kind = "disconnected" THEN disconnect(y) ELSE error(y, "SocketSendError"), FALSE)
     ELSE Return(Event([y EXCEPT !.out = y.out \o data], [e |-> "send", packet |-> packet, entry |-> IF y.c.kind = "sender" THEN y.c.current_send_entry ELSE 0]), TRUE)

\* Connection::send_packet / ProtocolConnection::send_packet
send_packet(x, packet) ==
  LET frame == FramePacket(packet)
  IN IF frame = <<>> THEN Return(error(x, "FramingSendError"), FALSE) ELSE send_packet_internal(x, frame, packet)

\* ------------------------------------------------------------------------
\* receiver::Connection
\* ------------------------------------------------------------------------

\* ZSTD_decompressStream over one FileChunk.  The stream format of the model
\* is a run of stored blocks <<n, b1, ..., bn>>; <<0>> ends the session.
RECURSIVE ZSTD_decompressStream(_)
ZSTD_decompressStream(input) ==
  IF input = <<>> THEN [ok |-> TRUE, out |-> <<>>]
  ELSE IF Len(input) < 1 + input[1] THEN [ok |-> FALSE, out |-> <<>>]
  ELSE LET rest == ZSTD_decompressStream(Drop(input, 1 + input[1]))
       IN [ok |-> rest.ok, out |-> SubSeq(input, 2, 1 + input[1]) \o rest.out]

ReceiverConnection == [kind |-> "receiver", alive |-> TRUE, frame_receiver |-> FrameReceiverInit, state |-> "WaitingForHello", download |-> Null, download_hasher |-> <<>>]

\* to_fs_path: ret is the success flag, x.path the filesystem path.
\* to_fs_path answering the rejected path itself.
to_fs_path_Answers(x, virtual_path) ==
  IF ContainsColons(virtual_path)
  THEN Return(send_packet(protocol_error(x, "path contains .."), Acknowledged(FALSE)), FALSE)
  ELSE Return([x EXCEPT !.path = receive_directory \o <<Slash>> \o virtual_path], TRUE)

to_fs_path(x, virtual_path) ==
  IF ContainsColons(virtual_path)
  THEN Return(protocol_error(x, "path contains .."), FALSE)
  ELSE Return([x EXCEPT !.path = receive_directory \o <<Slash>> \o virtual_path], TRUE)

\* create_directory refusing a directory that is already there.
receiver_create_directory_Fresh(x, virtual_path) ==
  LET t == to_fs_path(x, virtual_path)
      m == FsOp(t)
  IN IF ~t.ret THEN Return(protocol_error(t, "failed to convert to filesystem path"), FALSE)
     ELSE IF ~m.fs_fail /\ ~fs_exists(m.fs, m.path) /\ fs_can_create_directories(m.fs, m.path)
          THEN Return(Event([m EXCEPT !.fs = fs_create_directories(m.fs, m.path)], [e |-> "mkdir", path |-> m.path]), TRUE)
          ELSE Return(protocol_error(m, "failed to create directory"), FALSE)

receiver_create_directory(x, virtual_path) ==
  LET t == to_fs_path(x, virtual_path)
      m == FsOp(t)
  IN IF ~t.ret THEN Return(protocol_error(t, "failed to convert to filesystem path"), FALSE)
     ELSE IF fs_exists(t.fs, t.path) /\ fs_is_directory(t.fs, t.path) THEN Return(t, TRUE)
     ELSE IF ~m.fs_fail /\ fs_can_create_directories(m.fs, m.path)
          THEN Return(Event([m EXCEPT !.fs = fs_create_directories(m.fs, m.path)], [e |-> "mkdir", path |-> m.path]), TRUE)
          ELSE Return(protocol_error(m, "failed to create directory"), FALSE)

\* finish_chunks_download leaving the state as it is.
finish_chunks_download_Stays(x) == x

finish_chunks_download(x) == [x EXCEPT !.c.state = "WaitingForHash"]

\* start_file_download leaving an empty file in Downloading.
start_file_download_AwaitsChunk(x, virtual_path, file_size, flags) ==
  LET t0 == to_fs_path(x, virtual_path)
      t == IF t0.ret /\ ~fs_exists(t0.fs, t0.path) THEN FsOp(t0) ELSE t0
      is_compressed == (flags % 2) # 0
      opened == Event([t EXCEPT !.fs = fs_put(t.fs, t.path, <<>>),
                                !.c.state = "Downloading",
                                !.c.download = [virtual_path |-> virtual_path, fs_path |-> t.path, file_size |-> file_size, downloaded_size |-> 0, is_compressed |-> is_compressed],
                                !.c.download_hasher = <<>>],
                      [e |-> "download", path |-> t.path, replaced |-> t.c.download # Null])
  IN IF ~t.ret THEN Return(protocol_error(t, "failed to convert to filesystem path"), FALSE)
     ELSE IF fs_exists(t.fs, t.path) THEN Return(protocol_error(t, "path already exists"), FALSE)
     ELSE IF t.fs_fail \/ ~fs_can_open_for_write(t.fs, t.path) THEN Return(protocol_error(t, "failed to open file for writing"), FALSE)
     ELSE Return(opened, TRUE)

\* start_file_download opening the file without asking whether it exists.
start_file_download_Overwrites(x, virtual_path, file_size, flags) ==
  LET t0 == to_fs_path(x, virtual_path)
      t == IF t0.ret THEN FsOp(t0) ELSE t0
      is_compressed == (flags % 2) # 0
      opened == Event([t EXCEPT !.fs = fs_put(t.fs, t.path, <<>>),
                                !.c.state = "Downloading",
                                !.c.download = [virtual_path |-> virtual_path, fs_path |-> t.path, file_size |-> file_size, downloaded_size |-> 0, is_compressed |-> is_compressed],
                                !.c.download_hasher = <<>>],
                      [e |-> "download", path |-> t.path, replaced |-> t.c.download # Null])
  IN IF ~t.ret THEN Return(protocol_error(t, "failed to convert to filesystem path"), FALSE)
     ELSE IF t.fs_fail \/ ~fs_can_open_for_write(t.fs, t.path) THEN Return(protocol_error(t, "failed to open file for writing"), FALSE)
     ELSE Return(IF file_size = U64(0) THEN finish_chunks_download(opened) ELSE opened, TRUE)

start_file_download(x, virtual_path, file_size, flags) ==
  LET t0 == to_fs_path(x, virtual_path)
      t == IF t0.ret /\ ~fs_exists(t0.fs, t0.path) THEN FsOp(t0) ELSE t0
      is_compressed == (flags % 2) # 0
      opened == Event([t EXCEPT !.fs = fs_put(t.fs, t.path, <<>>),
                                !.c.state = "Downloading",
                                !.c.download = [virtual_path |-> virtual_path, fs_path |-> t.path, file_size |-> file_size, downloaded_size |-> 0, is_compressed |-> is_compressed],
                                !.c.download_hasher = <<>>],
                      [e |-> "download", path |-> t.path, replaced |-> t.c.download # Null])
  IN IF ~t.ret THEN Return(protocol_error(t, "failed to convert to filesystem path"), FALSE)
     ELSE IF fs_exists(t.fs, t.path) THEN Return(protocol_error(t, "path already exists"), FALSE)
     ELSE IF t.fs_fail \/ ~fs_can_open_for_write(t.fs, t.path) THEN Return(protocol_error(t, "failed to open file for writing"), FALSE)
     ELSE Return(IF file_size = U64(0) THEN finish_chunks_download(opened) ELSE opened, TRUE)

\* process_downloaded_chunk without the check against the declared size.
process_downloaded_chunk_Unbounded(x0, download_chunk) ==
  LET x == FsOp(x0)
      down == x.c.download
      dec == IF down.is_compressed THEN ZSTD_decompressStream(download_chunk) ELSE [ok |-> TRUE, out |-> download_chunk]
      file_chunk == dec.out
      written == Event([x EXCEPT !.fs = fs_put(x.fs, down.fs_path, x.fs.files[down.fs_path] \o file_chunk),
                                 !.c.download.downloaded_size = down.downloaded_size + Len(file_chunk)],
                       [e |-> "write", data |-> file_chunk])
      fed == [written EXCEPT !.c.download_hasher = x.c.download_hasher \o file_chunk]
  IN IF ~dec.ok THEN protocol_error(x0, "failed to decompress the file chunk")
     ELSE IF x.fs_fail /\ file_chunk # <<>> THEN protocol_error(x, "failed to write to file")
     ELSE IF U64(fed.c.download.downloaded_size) = down.file_size THEN finish_chunks_download(fed)
     ELSE fed

process_downloaded_chunk(x0, download_chunk) ==
  LET x == FsOp(x0)
      down == x.c.download
      dec == IF down.is_compressed THEN ZSTD_decompressStream(download_chunk) ELSE [ok |-> TRUE, out |-> download_chunk]
      file_chunk == dec.out
      written == Event([x EXCEPT !.fs = fs_put(x.fs, down.fs_path, x.fs.files[down.fs_path] \o file_chunk),
                                 !.c.download.downloaded_size = down.downloaded_size + Len(file_chunk)],
                       [e |-> "write", data |-> file_chunk])
      fed == [written EXCEPT !.c.download_hasher = x.c.download_hasher \o file_chunk]
  IN IF ~dec.ok THEN protocol_error(x0, "failed to decompress the file chunk")
     ELSE IF x.fs_fail /\ file_chunk # <<>> THEN protocol_error(x, "failed to write to file")
     ELSE IF WordsLess(down.file_size, U64(written.c.download.downloaded_size)) THEN protocol_error(written, "got more file data than expected")
     ELSE IF U64(fed.c.download.downloaded_size) = down.file_size THEN finish_chunks_download(fed)
     ELSE fed

verify_file(x, hash) ==
  LET downloaded_hash == XXH3_64bits_digest(x.c.download_hasher)
  IN IF hash # downloaded_hash THEN Return(protocol_error(x, "file failed the integrity check"), FALSE)
     ELSE Return(Event([x EXCEPT !.c.state = "Idle", !.c.download = Null], [e |-> "verified", path |-> x.c.download.fs_path]), TRUE)

\* on_packet_received taking a CreateFile while a file is being downloaded.
receiver_on_packet_received_Reopens(x, packet) ==
  CASE packet.id = PacketID_ReceiverHello -> protocol_error(x, "received unexpected ReceiverHello packet")
    [] packet.id = PacketID_SenderHello ->
         IF x.c.state = "WaitingForHello"
         THEN LET y == send_packet(x, ReceiverHello) IN [y EXCEPT !.c.state = "Idle"]
         ELSE protocol_error(x, "received unxpected SenderHello packet")
    [] packet.id = PacketID_Acknowledged -> protocol_error(x, "received unexpected Acknowledged packet")
    [] packet.id = PacketID_CreateDirectory ->
         IF x.c.state = "Idle"
         THEN LET created == receiver_create_directory(x, packet.path) IN send_packet(created, Acknowledged(created.ret))
         ELSE protocol_error(x, "received unexpected CreateDirectory packet")
    [] packet.id = PacketID_CreateFile ->
         IF x.c.state \in {"Idle", "Downloading"}
         THEN LET started == start_file_download(x, packet.path, packet.size, packet.flags) IN send_packet(started, Acknowledged(started.ret))
         ELSE protocol_error(x, "received unexpected CreateFile packet")
    [] packet.id = PacketID_FileChunk ->
         IF x.c.state = "Downloading"
         THEN process_downloaded_chunk(x, packet.data)
         ELSE protocol_error(x, "received unexpected CreateFile packet")
    [] packet.id = PacketID_VerifyFile ->
         IF x.c.state = "WaitingForHash"
         THEN LET verified == verify_file(x, packet.hash) IN send_packet(verified, Acknowledged(verified.ret))
         ELSE protocol_error(x, "received unxpected Acknowledged packet")

\* receiver::Connection::on_packet_received, all overloads.
receiver_on_packet_received(x, packet) ==
  CASE packet.id = PacketID_ReceiverHello -> protocol_error(x, "received unexpected ReceiverHello packet")
    [] packet.id = PacketID_SenderHello ->
         IF x.c.state = "WaitingForHello"
         THEN LET y == send_packet(x, ReceiverHello) IN [y EXCEPT !.c.state = "Idle"]
         ELSE protocol_error(x, "received unxpected SenderHello packet")
    [] packet.id = PacketID_Acknowledged -> protocol_error(x, "received unexpected Acknowledged packet")
    [] packet.id = PacketID_CreateDirectory ->
         IF x.c.state = "Idle"
         THEN LET created == receiver_create_directory(x, packet.path) IN send_packet(created, Acknowledged(created.ret))
         ELSE protocol_error(x, "received unexpected CreateDirectory packet")
    [] packet.id = PacketID_CreateFile ->
         IF x.c.state = "Idle"
         THEN LET started == start_file_download(x, packet.path, packet.size, packet.flags) IN send_packet(started, Acknowledged(started.ret))
         ELSE protocol_error(x, "received unexpected CreateFile packet")
    [] packet.id = PacketID_FileChunk ->
         IF x.c.state = "Downloading"
         THEN process_downloaded_chunk(x, packet.data)
         ELSE protocol_error(x, "received unexpected CreateFile packet")
    [] packet.id = PacketID_VerifyFile ->
         IF x.c.state = "WaitingForHash"
         THEN LET verified == verify_file(x, packet.hash) IN send_packet(verified, Acknowledged(verified.ret))
         ELSE protocol_error(x, "received unxpected Acknowledged packet")

\* ------------------------------------------------------------------------
\* sender::Connection
\* ------------------------------------------------------------------------

max_compressed_chunk_size == 64 * 1024

\* ZSTD_compressStream2 over one block read from the file (see
\* ZSTD_decompressStream for the format).
ZSTD_compressStream2(input, is_last_chunk) == (IF input = <<>> THEN <<>> ELSE <<Len(input)>> \o input) \o (IF is_last_chunk THEN <<0>> ELSE <<>>)

SenderConnection(send_entries) == [kind |-> "sender", alive |-> TRUE, frame_receiver |-> FrameReceiverInit, state |-> "WaitingForHello", send_entries |-> send_entries, current_send_entry |-> 0, upload |-> Null, upload_hasher |-> <<>>, compression_buffer |-> <<>>]

\* should_compress_file choosing compression for every file with bytes in it.
should_compress_file_NonEmpty(fs_path, size) == size > 0

should_compress_file(fs_path, size) == FALSE

sender_create_directory(x, virtual_path) ==
  LET y == send_packet(x, CreateDirectory(virtual_path))
  IN IF y.ret THEN [y EXCEPT !.c.state = "WaitingForDirectoryCreationAcknowledgement"] ELSE y

start_file_upload(x0, virtual_path, fs_path) ==
  LET x == FsOp(x0)
      total_file_size == Len(x.fs.files[fs_path])
      compress_file == should_compress_file(fs_path, total_file_size)
      flags == IF compress_file THEN flag_compressed ELSE 0
      y == send_packet(x, CreateFile(virtual_path, U64(total_file_size), flags))
  IN IF x.fs_fail \/ fs_path \notin DOMAIN x.fs.files THEN protocol_error(x, "failed to open file for reading")
     ELSE IF ~y.ret THEN y
     ELSE Event([y EXCEPT !.c.state = "WaitingForFileCreationAcknowledgement",
                          !.c.upload = [virtual_path |-> virtual_path, fs_path |-> fs_path, file_size |-> total_file_size, is_compressed |-> compress_file]],
                [e |-> "upload", path |-> fs_path, replaced |-> y.c.upload # Null])

\* The lambda flush_compression_buffer of upload_accepted_file.
flush_compression_buffer(x) ==
  IF x.c.compression_buffer # <<>>
  THEN LET y == send_packet(x, FileChunk(x.c.compression_buffer))
       IN IF y.ret THEN Return([y EXCEPT !.c.compression_buffer = <<>>], TRUE) ELSE y
  ELSE Return(x, TRUE)

\* upload_finish keeping the upload until the acknowledgement.
upload_finish_KeepsUpload(x) ==
  LET f == IF x.c.upload.is_compressed THEN flush_compression_buffer(x) ELSE Return(x, TRUE)
      hash == XXH3_64bits_digest(f.c.upload_hasher)
      y == send_packet(f, VerifyFile(hash))
  IN IF ~f.ret THEN f
     ELSE IF ~y.ret THEN y
     ELSE Event([y EXCEPT !.c.state = "WaitingForUploadAcknowledgement"], [e |-> "upload_end"])

\* The tail of upload_accepted_file, after the read loop.
upload_finish(x) ==
  LET f == IF x.c.upload.is_compressed THEN flush_compression_buffer(x) ELSE Return(x, TRUE)
      hash == XXH3_64bits_digest(f.c.upload_hasher)
      y == send_packet(f, VerifyFile(hash))
  IN IF ~f.ret THEN f
     ELSE IF ~y.ret THEN y
     ELSE Event([y EXCEPT !.c.state = "WaitingForUploadAcknowledgement", !.c.upload = Null], [e |-> "upload_end"])

\* The read loop writing the short block before it raises the error.
RECURSIVE upload_loop_SendsShort(_, _)
upload_loop_SendsShort(x, total_bytes_read) ==
  LET up == x.c.upload
      content == x.fs.files[up.fs_path]
      read_size == Max(0, Min(max_chunk_size, Len(content) - total_bytes_read))
      total == total_bytes_read + read_size
      file_chunk == SubSeq(content, total_bytes_read + 1, total)
      y == send_packet(x, FileChunk(file_chunk))
  IN IF ~(total_bytes_read < up.file_size) THEN upload_finish(x)
     ELSE IF read_size < max_chunk_size /\ total # up.file_size
       THEN (IF ~y.ret THEN y ELSE protocol_error(y, "failed to read file"))
     ELSE IF ~y.ret THEN y
     ELSE upload_loop_SendsShort(Event([y EXCEPT !.c.upload_hasher = y.c.upload_hasher \o file_chunk], [e |-> "read", data |-> file_chunk]), total)

\* The read loop of upload_accepted_file; total_bytes_read is its counter.
RECURSIVE upload_loop(_, _)
upload_loop(x, total_bytes_read) ==
  LET up == x.c.upload
      content == x.fs.files[up.fs_path]
      read_size == Max(0, Min(max_chunk_size, Len(content) - total_bytes_read))
      total == total_bytes_read + read_size
      file_chunk == SubSeq(content, total_bytes_read + 1, total)
      is_last_chunk == total = up.file_size
      plain == send_packet(x, FileChunk(file_chunk))
      packed == [x EXCEPT !.c.compression_buffer = x.c.compression_buffer \o ZSTD_compressStream2(file_chunk, is_last_chunk)]
      flushed == IF Len(packed.c.compression_buffer) >= max_compressed_chunk_size THEN flush_compression_buffer(packed) ELSE Return(packed, TRUE)
      y == IF up.is_compressed THEN flushed ELSE plain
  IN IF ~(total_bytes_read < up.file_size) THEN upload_finish(x)
     ELSE IF read_size < max_chunk_size /\ total # up.file_size THEN protocol_error(x, "failed to read file")
     ELSE IF ~y.ret THEN y
     ELSE upload_loop(Event([y EXCEPT !.c.upload_hasher = y.c.upload_hasher \o file_chunk], [e |-> "read", data |-> file_chunk]), total)

upload_accepted_file(x) == upload_loop([x EXCEPT !.c.upload_hasher = <<>>, !.c.compression_buffer = IF x.c.upload.is_compressed THEN <<>> ELSE x.c.compression_buffer], 0)

\* process_send_entry finishing when the last entry is reached.
process_send_entry_OneShort(x, index) ==
  IF index + 1 >= Len(x.c.send_entries)
  THEN set_not_alive([x EXCEPT !.c.state = "Finished"])
  ELSE LET entry == x.c.send_entries[index + 1]
       IN IF entry.type = "Directory" THEN sender_create_directory(x, entry.relative_path)
          ELSE start_file_upload(x, entry.relative_path, entry.absolute_path)

process_send_entry(x, index) ==
  IF index >= Len(x.c.send_entries)
  THEN set_not_alive([x EXCEPT !.c.state = "Finished"])
  ELSE LET entry == x.c.send_entries[index + 1]
       IN IF entry.type = "Directory" THEN sender_create_directory(x, entry.relative_path)
          ELSE start_file_upload(x, entry.relative_path, entry.absolute_path)

process_first_send_entry(x) == process_send_entry(x, x.c.current_send_entry)

\* process_next_send_entry staying at the entry.
process_next_send_entry_Again(x) == process_send_entry(x, x.c.current_send_entry)

process_next_send_entry(x) == process_send_entry([x EXCEPT !.c.current_send_entry = x.c.current_send_entry + 1], x.c.current_send_entry + 1)

\* on_handshake_finished going on to the second entry without waiting.
on_handshake_finished_Pipelined(x) == process_next_send_entry(process_first_send_entry(x))

on_handshake_finished(x) == process_first_send_entry(x)

\* on_directory_creation_accepted going back to Idle and writing nothing.
on_directory_creation_accepted_Rests(x) == [x EXCEPT !.c.state = "Idle"]

on_directory_creation_accepted(x) == process_next_send_entry([x EXCEPT !.c.state = "Idle"])

\* on_file_creation_accepted going on to the next entry after the upload.
on_file_creation_accepted_AndNext(x) == process_next_send_entry(upload_accepted_file(x))

on_file_creation_accepted(x) == upload_accepted_file(x)

on_upload_accepted(x) == process_next_send_entry([x EXCEPT !.c.state = "Idle"])

\* Sender::on_packet_received going on to the next entry when a directory
\* was rejected.
sender_on_packet_received_SkipsRejected(x, packet) ==
  CASE packet.id = PacketID_ReceiverHello ->
         IF x.c.state = "WaitingForHello" THEN on_handshake_finished([x EXCEPT !.c.state = "Idle"])
         ELSE protocol_error(x, "received unexpected ReceiverHello packet")
    [] packet.id = PacketID_SenderHello -> protocol_error(x, "received unexpected SenderHello packet")
    [] packet.id = PacketID_Acknowledged ->
         CASE x.c.state = "WaitingForDirectoryCreationAcknowledgement" -> on_directory_creation_accepted(x)
           [] x.c.state = "WaitingForFileCreationAcknowledgement" ->
                IF packet.accepted THEN on_file_creation_accepted(x) ELSE protocol_error(x, "server rejected the file creation request")
           [] x.c.state = "WaitingForUploadAcknowledgement" ->
                IF packet.accepted THEN on_upload_accepted(x) ELSE protocol_error(x, "server rejected the file upload")
           [] OTHER -> protocol_error(x, "received unexpected Acknowledged packet")
    [] packet.id = PacketID_CreateDirectory -> protocol_error(x, "received unexpected CreateDirectory packet")
    [] packet.id = PacketID_CreateFile -> protocol_error(x, "received unexpected CreateFile packet")
    [] packet.id = PacketID_FileChunk -> protocol_error(x, "received unexpected FileChunk packet")
    [] packet.id = PacketID_VerifyFile -> protocol_error(x, "received unexpected VerifyFile packet")

\* Sender::on_packet_received passing over a ReceiverHello after the
\* handshake.
sender_on_packet_received_IgnoresHello(x, packet) ==
  CASE packet.id = PacketID_ReceiverHello ->
         IF x.c.state = "WaitingForHello" THEN on_handshake_finished([x EXCEPT !.c.state = "Idle"])
         ELSE x
    [] packet.id = PacketID_SenderHello -> protocol_error(x, "received unexpected SenderHello packet")
    [] packet.id = PacketID_Acknowledged ->
         CASE x.c.state = "WaitingForDirectoryCreationAcknowledgement" ->
                IF packet.accepted THEN on_directory_creation_accepted(x) ELSE protocol_error(x, "server creation the directory creation request")
           [] x.c.state = "WaitingForFileCreationAcknowledgement" ->
                IF packet.accepted THEN on_file_creation_accepted(x) ELSE protocol_error(x, "server rejected the file creation request")
           [] x.c.state = "WaitingForUploadAcknowledgement" ->
                IF packet.accepted THEN on_upload_accepted(x) ELSE protocol_error(x, "server rejected the file upload")
           [] OTHER -> protocol_error(x, "received unexpected Acknowledged packet")
    [] packet.id = PacketID_CreateDirectory -> protocol_error(x, "received unexpected CreateDirectory packet")
    [] packet.id = PacketID_CreateFile -> protocol_error(x, "received unexpected CreateFile packet")
    [] packet.id = PacketID_FileChunk -> protocol_error(x, "received unexpected FileChunk packet")
    [] packet.id = PacketID_VerifyFile -> protocol_error(x, "received unexpected VerifyFile packet")

\* sender::Connection::on_packet_received, all overloads.
sender_on_packet_received(x, packet) ==
  CASE packet.id = PacketID_ReceiverHello ->
         IF x.c.state = "WaitingForHello" THEN on_handshake_finished([x EXCEPT !.c.state = "Idle"])
         ELSE protocol_error(x, "received unexpected ReceiverHello packet")
    [] packet.id = PacketID_SenderHello -> protocol_error(x, "received unexpected SenderHello packet")
    [] packet.id = PacketID_Acknowledged ->
         CASE x.c.state = "WaitingForDirectoryCreationAcknowledgement" ->
                IF packet.accepted THEN on_directory_creation_accepted(x) ELSE protocol_error(x, "server creation the directory creation request")
           [] x.c.state = "WaitingForFileCreationAcknowledgement" ->
                IF packet.accepted THEN on_file_creation_accepted(x) ELSE protocol_error(x, "server rejected the file creation request")
           [] x.c.state = "WaitingForUploadAcknowledgement" ->
                IF packet.accepted THEN on_upload_accepted(x) ELSE protocol_error(x, "server rejected the file upload")
           [] OTHER -> protocol_error(x, "received unexpected Acknowledged packet")
    [] packet.id = PacketID_CreateDirectory -> protocol_error(x, "received unexpected CreateDirectory packet")
    [] packet.id = PacketID_CreateFile -> protocol_error(x, "received unexpected CreateFile packet")
    [] packet.id = PacketID_FileChunk -> protocol_error(x, "received unexpected FileChunk packet")
    [] packet.id = PacketID_VerifyFile -> protocol_error(x, "received unexpected VerifyFile packet")

\* start announcing the first entry along with the hello.
start_Eager(x) == process_first_send_entry(send_packet(x, SenderHello))

\* sender::Connection::start
start(x) == send_packet(x, SenderHello)

\* sender::Connection::finished
finished(c) == c.state = "Finished"

\* ------------------------------------------------------------------------
\* The packet dispatch and the connection's update()
\* ------------------------------------------------------------------------

\* ProtocolConnection::on_packet_received(BinaryReader)
on_packet_received(x, reader) ==
  LET d == deserialize_packet(reader)
      y == Event(x, [e |-> "frame", payload |-> reader])
  IN IF ~d.ok THEN protocol_error(y, d.error)
     ELSE IF y.c.kind = "sender" THEN sender_on_packet_received(Event(y, [e |-> "packet", packet |-> d.packet]), d.packet)
     ELSE receiver_on_packet_received(Event(y, [e |-> "packet", packet |-> d.packet]), d.packet)

\* The loop of Connection::update going on for as long as frames are there.
RECURSIVE update_loop_Drains(_)
update_loop_Drains(x) ==
  LET u == FrameReceiver_update(x.c.frame_receiver)
      called == Event([x EXCEPT !.c.frame_receiver = u.fr], [e |-> "update", buffer |-> x.c.frame_receiver.buffer, pending |-> x.c.frame_receiver.pending_frame_size, result |-> u.result])
  IN IF u.result = "ReceivedFrame"
     THEN LET h == on_packet_received(called, u.frame)
          IN update_loop_Drains([h EXCEPT !.c.frame_receiver = FrameReceiver_discard_frame(h.c.frame_receiver)])
     ELSE IF u.result = "MalformedStream" THEN error(called, "FramingSendError")
     ELSE called

\* The loop of Connection::update handing over one frame a call.
update_loop_OneFrame(x) ==
  IF ~x.c.alive THEN x
  ELSE LET u == FrameReceiver_update(x.c.frame_receiver)
           called == Event([x EXCEPT !.c.frame_receiver = u.fr], [e |-> "update", buffer |-> x.c.frame_receiver.buffer, pending |-> x.c.frame_receiver.pending_frame_size, result |-> u.result])
       IN IF u.result = "ReceivedFrame"
          THEN LET h == on_packet_received(called, u.frame)
               IN [h EXCEPT !.c.frame_receiver = FrameReceiver_discard_frame(h.c.frame_receiver)]
          ELSE IF u.result = "MalformedStream" THEN error(called, "FramingSendError")
          ELSE called

\* The while (alive_) loop of Connection::update.
RECURSIVE update_loop(_)
update_loop(x) ==
  IF ~x.c.alive THEN x
  ELSE LET u == FrameReceiver_update(x.c.frame_receiver)
           called == Event([x EXCEPT !.c.frame_receiver = u.fr], [e |-> "update", buffer |-> x.c.frame_receiver.buffer, pending |-> x.c.frame_receiver.pending_frame_size, result |-> u.result])
       IN IF u.result = "ReceivedFrame"
          THEN LET h == on_packet_received(called, u.frame)
               IN update_loop([h EXCEPT !.c.frame_receiver = FrameReceiver_discard_frame(h.c.frame_receiver)])
          ELSE IF u.result = "MalformedStream" THEN update_loop(error(called, "FramingSendError"))
          ELSE called

\* Connection::update.  rx is what socket->receive() returns:
\* [status |-> "ok", data], [status |-> "disconnected"] or [status |-> "error"].
Connection_update(x, rx) ==
  LET got == [x EXCEPT !.c.frame_receiver = receive(x.c.frame_receiver, IF rx.status = "ok" THEN rx.data ELSE <<>>)]
      y == IF rx.status = "ok" THEN got ELSE IF rx.status = "disconnected" THEN disconnect(got) ELSE error(got, "SocketReceiveError")
  IN update_loop(y)

\* ------------------------------------------------------------------------
\* State
\* ------------------------------------------------------------------------

VARIABLES sender, receiver, sfs, rfs, s2r, r2s, env, last, slog, rlog, codec, workers

vars == <<sender, receiver, sfs, rfs, s2r, r2s, env, last, slog, rlog, codec, workers>>

\* sender, receiver  the two connection objects
\* sfs, rfs          the sender's and the receiver's disk
\* s2r, r2s          the bytes in flight on the stream, per direction
\* env               the surroundings of the connections: which peer is real
\*                   (mode), whether start() ran, what the scripted peer did
\* last              the events of the most recent call (who, ev)
\* slog, rlog        all events of the sender / receiver so far, except the
\*                   FrameReceiver::update and set_not_alive calls
\* codec             a packet on its way through serialize and deserialize

Context(c, fs, fail_at, fail_kind, fs_fail) == [c |-> c, fs |-> fs, out |-> <<>>, sends |-> 0, fsops |-> 0, fail_at |-> fail_at, fail_kind |-> fail_kind, fs_fail |-> fs_fail, ret |-> TRUE, path |-> <<>>, ev |-> <<>>]

Logged(ev) == SelectSeq(ev, LAMBDA r : r.e \notin {"update", "set_not_alive"})

\* The ways a socket send can fail during one call: not at all, or at the
\* k-th send_all, as a disconnect or as another error.
MaxFailAt == 2

SendFailures == {<<0, "none">>} \cup ((1..MaxFailAt) \X {"disconnected", "error"})

\* A call under a choice of failures makes a difference when the call got
\* as far as the failure: it used the disk, it sent k times.
Reached(run) == run.f[1] <= run.x.sends /\ (run.fs_fail => run.x.fsops > 0)

\* The offsets in a stream of well-formed frames at which a frame ends.
RECURSIVE FrameEnds(_, _)
FrameEnds(wire, offset) ==
  IF Len(wire) < frame_header_size THEN {}
  ELSE LET size == U32ToNat(bytes_to_u32(SubSeq(wire, 5, 8)))
       IN {offset + size} \cup FrameEnds(Drop(wire, size), offset + size)

\* The sizes socket->receive() may return for the bytes in flight.  The
\* segmentation of the stream is explored byte by byte where the stream is
\* the input ("stream"); elsewhere the socket hands over whole frames, any
\* number of them at a time.
ReceiveSizes(wire, span) ==
  IF env.mode = "stream" THEN 1..Min(Len(wire), span)
  ELSE {n \in FrameEnds(wire, 0) \cup {Len(wire)} : n >= 1 /\ n <= span}

\* What socket->receive() can return: some of the bytes in flight (at most
\* the prepared span), "disconnected" once the peer has closed and nothing
\* is in flight, or an error at any time.
ReceiveResults(wire, fr, peer_closed) ==
  {[status |-> "ok", data |-> Take(wire, n)] : n \in ReceiveSizes(wire, fr.receive_buffer_size)}
  \cup (IF wire = <<>> /\ peer_closed THEN {[status |-> "disconnected"]} ELSE {})
  \cup {[status |-> "error"]}

Consumed(wire, rx) == IF rx.status = "ok" THEN Drop(wire, Len(rx.data)) ELSE wire

EmptyDisk == [dirs |-> {}, files |-> <<>>]

ReceiverDisk == [dirs |-> {receive_directory}, files |-> <<>>]

\* No connection but the one under study was accepted.
NoWorkers == <<>>

NoCodec == [phase |-> "none"]

NoLast == [who |-> "none", ev |-> <<>>]

\* ------------------------------------------------------------------------
\* Actions of the connections
\* ------------------------------------------------------------------------

\* The receiver worker: one connection.update() while connection.alive().
ReceiverUpdate ==
  /\ env.mode \in {"system", "receiver", "stream"}
  /\ receiver.alive
  /\ \E rx \in ReceiveResults(s2r, receiver.frame_receiver, IF env.mode = "system" THEN env.started /\ ~sender.alive ELSE env.closed) :
     \E run \in {[f |-> f, fs_fail |-> fs_fail, x |-> Connection_update(Context(receiver, rfs, f[1], f[2], fs_fail), rx)] : f \in SendFailures, fs_fail \in BOOLEAN} :
       LET x == run.x
       IN /\ Reached(run)
          /\ receiver' = x.c
          /\ rfs' = x.fs
          /\ s2r' = Consumed(s2r, rx)
          /\ r2s' = IF env.mode = "system" THEN r2s \o x.out ELSE <<>>
          /\ last' = [who |-> "receiver", ev |-> x.ev]
          /\ rlog' = rlog \o Logged(x.ev)
          /\ env' = IF env.mode = "stream" /\ env.kind # "frames" /\ rx.status = "ok" THEN [env EXCEPT !.nrecv = env.nrecv + 1] ELSE env
  /\ UNCHANGED <<sender, sfs, slog, codec, workers>>

\* tools::sender::run: connection.start()
SenderStart ==
  /\ env.mode \in {"system", "sender"}
  /\ ~env.started
  /\ \E run \in {[f |-> f, fs_fail |-> FALSE, x |-> start(Context(sender, sfs, f[1], f[2], FALSE))] : f \in SendFailures} :
       LET x == run.x
       IN /\ Reached(run)
          /\ sender' = x.c
          /\ s2r' = IF env.mode = "system" THEN s2r \o x.out ELSE <<>>
          /\ last' = [who |-> "sender", ev |-> x.ev]
          /\ slog' = slog \o Logged(x.ev)
  /\ env' = [env EXCEPT !.started = TRUE]
  /\ UNCHANGED <<receiver, sfs, rfs, r2s, rlog, codec, workers>>

\* tools::sender::run: one connection.update() while connection.alive().
SenderUpdate ==
  /\ env.mode \in {"system", "sender"}
  /\ env.started
  /\ sender.alive
  /\ \E rx \in ReceiveResults(r2s, sender.frame_receiver, IF env.mode = "system" THEN ~receiver.alive ELSE env.closed) :
     \E run \in {[f |-> f, fs_fail |-> fs_fail, x |-> Connection_update(Context(sender, sfs, f[1], f[2], fs_fail), rx)] : f \in SendFailures, fs_fail \in BOOLEAN} :
       LET x == run.x
       IN /\ Reached(run)
          /\ sender' = x.c
          /\ r2s' = Consumed(r2s, rx)
          /\ s2r' = IF env.mode = "system" THEN s2r \o x.out ELSE <<>>
          /\ last' = [who |-> "sender", ev |-> x.ev]
          /\ slog' = slog \o Logged(x.ev)
  /\ UNCHANGED <<receiver, sfs, rfs, env, rlog, codec, workers>>

\* The same three steps when nothing fails: the socket sends and receives
\* without error and every filesystem operation succeeds.
NoFailure == <<0, "none">>

ReliableResults(wire, fr, peer_closed) == ReceiveResults(wire, fr, peer_closed) \ {[status |-> "error"]}

ReliableReceiverUpdate ==
  /\ env.mode = "system"
  /\ receiver.alive
  /\ \E rx \in ReliableResults(s2r, receiver.frame_receiver, env.started /\ ~sender.alive) :
     \E x \in {Connection_update(Context(receiver, rfs, NoFailure[1], NoFailure[2], FALSE), rx)} :
       /\ receiver' = x.c
       /\ rfs' = x.fs
       /\ s2r' = Consumed(s2r, rx)
       /\ r2s' = r2s \o x.out
       /\ last' = [who |-> "receiver", ev |-> x.ev]
       /\ rlog' = rlog \o Logged(x.ev)
  /\ UNCHANGED <<sender, sfs, slog, env, codec, workers>>

ReliableSenderStart ==
  /\ env.mode = "system"
  /\ ~env.started
  /\ \E x \in {start(Context(sender, sfs, NoFailure[1], NoFailure[2], FALSE))} :
       /\ sender' = x.c
       /\ s2r' = s2r \o x.out
       /\ last' = [who |-> "sender", ev |-> x.ev]
       /\ slog' = slog \o Logged(x.ev)
  /\ env' = [env EXCEPT !.started = TRUE]
  /\ UNCHANGED <<receiver, sfs, rfs, r2s, rlog, codec, workers>>

ReliableSenderUpdate ==
  /\ env.mode = "system"
  /\ env.started
  /\ sender.alive
  /\ \E rx \in ReliableResults(r2s, sender.frame_receiver, ~receiver.alive) :
     \E x \in {Connection_update(Context(sender, sfs, NoFailure[1], NoFailure[2], FALSE), rx)} :
       /\ sender' = x.c
       /\ r2s' = Consumed(r2s, rx)
       /\ s2r' = s2r \o x.out
       /\ last' = [who |-> "sender", ev |-> x.ev]
       /\ slog' = slog \o Logged(x.ev)
  /\ UNCHANGED <<receiver, sfs, rfs, env, rlog, codec, workers>>

\* ------------------------------------------------------------------------
\* The surroundings: inputs of the model
\* ------------------------------------------------------------------------

RECURSIVE SeqsUpTo(_, _)
SeqsUpTo(S, n) == IF n = 0 THEN {<<>>} ELSE LET shorter == SeqsUpTo(S, n - 1) IN shorter \cup {Append(q, b) : q \in shorter, b \in S}

\* Raw frame payloads: <<0, 2>> is a SenderHello, the others are no packets.
PayloadBytes == {0, 2, 241}

RawPayloads == SeqsUpTo(PayloadBytes, MaxPayload) \ {<<>>}

\* Headers as a peer may write them: the magic, or something else, and any
\* total length.
MagicVariants == {u32_to_bytes(frame_header_magic), <<0, 0, 0, 0>>, <<241, 80, 204, 0>>, <<0, 80, 204, 194>>}

SizeVariants == {U32(0), U32(frame_header_size), U32(frame_header_size + 1), U32(frame_max_size), U32(frame_max_size + 1), <<32768, 9>>, invalid_size}

HeaderStreams == {m \o u32_to_bytes(z) \o t : m \in MagicVariants, z \in SizeVariants, t \in {<<>>, <<0, 2>>}}

\* Paths and file contents.
PathD == <<100>>

PathDF == <<100, Slash, 102>>

PathDE == <<100, Slash, 101>>

PathG == <<103>>

PathColons == <<103, Colon, Colon>>

PathColonsFirst == <<Colon, Colon, 103>>

PathColonsInside == <<100, Colon, Colon, 102>>

PathOneColon == <<Colon, 103, Colon>>

LocalPath(relative_path) == <<83, Slash>> \o relative_path

Dir(relative_path) == [type |-> "Directory", relative_path |-> relative_path, absolute_path |-> LocalPath(relative_path)]

File(relative_path) == [type |-> "File", relative_path |-> relative_path, absolute_path |-> LocalPath(relative_path)]

\* Listings as FileListing builds them from the arguments (a directory
\* before what lies beneath it), cut to the bound.
AllListings == {<<Dir(PathD)>>, <<File(PathG)>>, <<Dir(PathD), File(PathDF)>>, <<Dir(PathD), Dir(PathDE)>>, <<File(PathG), Dir(PathD)>>, <<Dir(PathD), File(PathG)>>, <<File(PathG), Dir(PathD), File(PathDF)>>, <<Dir(PathD), File(PathDF), File(PathG)>>, <<Dir(PathD), Dir(PathDE), File(PathG)>>}

Listings == {l \in AllListings : Len(l) <= MaxEntries}

\* File contents: runs of 1, the last byte possibly 2.
FileContents == {[i \in 1..n |-> IF i = n THEN b ELSE 1] : n \in 0..MaxFileSize, b \in {1, 2}}

\* The sender's disk for a listing: every listed file holds `content`.
SenderDisk(listing, content) ==
  LET files == {listing[i].absolute_path : i \in {j \in 1..Len(listing) : listing[j].type = "File"}}
      dirs == {listing[i].absolute_path : i \in {j \in 1..Len(listing) : listing[j].type = "Directory"}}
  IN [dirs |-> dirs, files |-> [q \in files |-> content]]

\* Packets a peer of the receiver may write.
PeerPackets ==
  {SenderHello, ReceiverHello, Acknowledged(TRUE)}
  \cup {CreateDirectory(q) : q \in {PathD, PathColons, PathColonsFirst, PathColonsInside, PathOneColon}}
  \cup {CreateFile(q, U64(n), 0) : q \in {PathG, PathDF, PathColons}, n \in 0..2}
  \cup {CreateFile(q, U64(1), 0) : q \in {PathColonsFirst, PathColonsInside}}
  \cup {FileChunk(d) : d \in {<<>>, <<1>>, <<1, 1>>}}
  \cup {VerifyFile(XXH3_64bits_digest(d)) : d \in {<<>>, <<1>>, <<2>>}}

Env(mode) == [mode |-> mode, started |-> FALSE, closed |-> FALSE, changed |-> FALSE, nrecv |-> 0, npeer |-> 0, kind |-> "none", stream |-> <<>>, payloads |-> <<>>]

\* ------------------------------------------------------------------------
\* Actions of the surroundings
\* ------------------------------------------------------------------------

\* The peer of the receiver writes one packet (when the previous one has
\* been taken off the stream).
PeerSend ==
  /\ env.mode = "receiver"
  /\ receiver.alive /\ ~env.closed
  /\ s2r = <<>>
  /\ env.npeer < MaxPeerPackets
  /\ \E packet \in PeerPackets :
       /\ s2r' = FramePacket(packet)
       /\ last' = [who |-> "peer", ev |-> <<[e |-> "send", packet |-> packet, entry |-> 0]>>]
  /\ env' = [env EXCEPT !.npeer = env.npeer + 1]
  /\ UNCHANGED <<sender, receiver, sfs, rfs, r2s, slog, rlog, codec, workers>>

\* Packets a peer of the sender may write.
ReplyPackets == {ReceiverHello, SenderHello, Acknowledged(TRUE), Acknowledged(FALSE)}

\* Packets only a sender writes, here written to a sender.
StrayPackets == {CreateDirectory(PathD), CreateFile(PathG, U64(0), 0), FileChunk(<<1>>), VerifyFile(XXH3_64bits_digest(<<>>))}

RECURSIVE FramePackets(_)
FramePackets(packets) == IF packets = <<>> THEN <<>> ELSE FramePacket(Head(packets)) \o FramePackets(Tail(packets))

\* The peer of the sender writes one packet of any kind, or two replies at
\* once (when the previous ones have been taken off the stream).
PeerReply ==
  /\ env.mode = "sender"
  /\ sender.alive /\ ~env.closed
  /\ r2s = <<>>
  /\ \E packets \in {<<p>> : p \in ReplyPackets \cup StrayPackets} \cup {<<p, q>> : p \in ReplyPackets, q \in ReplyPackets} :
       /\ env.npeer + Len(packets) <= MaxPeerPackets
       /\ r2s' = FramePackets(packets)
       /\ last' = [who |-> "peer", ev |-> [i \in 1..Len(packets) |-> [e |-> "send", packet |-> packets[i], entry |-> 0]]]
       /\ env' = [env EXCEPT !.npeer = env.npeer + Len(packets)]
  /\ UNCHANGED <<sender, receiver, sfs, rfs, s2r, slog, rlog, codec, workers>>

\* Payloads that are no packet: a tag that is none, fixed fields cut short
\* by a byte, a byte after the last fixed field (a path or chunk data takes
\* all the bytes that follow, so it is neither short nor followed).
UnknownTags == {<<0, 0>>, <<0, 8>>, <<0, 241>>, <<1, 2>>}

CutShort == {Take(serialize_packet(<<>>, p), Len(serialize_packet(<<>>, p)) - 1) : p \in {SenderHello, Acknowledged(TRUE), CreateFile(<<>>, U64(1), 0), VerifyFile(XXH3_64bits_digest(<<1>>))}}

Overlong == {serialize_packet(<<>>, p) \o <<0>> : p \in {ReceiverHello, SenderHello, Acknowledged(FALSE), VerifyFile(XXH3_64bits_digest(<<1>>))}}

MalformedPayloads == UnknownTags \cup CutShort \cup Overlong

\* The peer of the receiver writes a frame that holds no packet.
PeerSendRaw ==
  /\ env.mode = "receiver"
  /\ receiver.alive /\ ~env.closed
  /\ s2r = <<>>
  /\ env.npeer < MaxPeerPackets
  /\ \E payload \in MalformedPayloads : s2r' = FramePayload(payload)
  /\ last' = [who |-> "peer", ev |-> <<>>]
  /\ env' = [env EXCEPT !.npeer = env.npeer + 1]
  /\ UNCHANGED <<sender, receiver, sfs, rfs, r2s, slog, rlog, codec, workers>>

\* The peer closes its end of the stream.
PeerClose ==
  /\ env.mode \in {"receiver", "sender", "stream"}
  /\ ~env.closed
  /\ env' = [env EXCEPT !.closed = TRUE]
  /\ last' = [who |-> "peer", ev |-> <<>>]
  /\ UNCHANGED <<sender, receiver, sfs, rfs, s2r, r2s, slog, rlog, codec, workers>>

\* A file being uploaded changes on the sender's disk after its size was
\* probed.
FileChange ==
  /\ env.mode = "system"
  /\ ~env.changed
  /\ sender.alive /\ sender.upload # Null
  /\ \E content \in FileContents :
       /\ content # sfs.files[sender.upload.fs_path]
       /\ sfs' = fs_put(sfs, sender.upload.fs_path, content)
  /\ env' = [env EXCEPT !.changed = TRUE]
  /\ last' = [who |-> "disk", ev |-> <<>>]
  /\ UNCHANGED <<sender, receiver, rfs, s2r, r2s, slog, rlog, codec, workers>>

\* ------------------------------------------------------------------------
\* The packet codec on its own
\* ------------------------------------------------------------------------

CodecPackets ==
  {SenderHello, ReceiverHello, Acknowledged(TRUE), Acknowledged(FALSE)}
  \cup {CreateDirectory(q) : q \in {<<>>, PathD, PathDF, PathColons}}
  \cup {CreateFile(q, z, f) : q \in {<<>>, PathG, PathDF}, z \in {U64(0), U64(3), <<1, 2, 3, 4>>, <<65535, 65535, 65535, 65535>>}, f \in {0, flag_compressed, 65535}}
  \cup {FileChunk(d) : d \in {<<>>, <<0>>, <<1, 255>>}}
  \cup {VerifyFile(h) : h \in {U64(0), <<258, 772, 1286, 1800>>, XXH3_64bits_digest(<<1, 2>>)}}

\* serialize_packet into a fresh writer.
Serialize ==
  /\ codec.phase = "packet"
  /\ codec' = [phase |-> "bytes", packet |-> codec.packet, bytes |-> serialize_packet(<<>>, codec.packet)]
  /\ UNCHANGED <<sender, receiver, sfs, rfs, s2r, r2s, env, last, slog, rlog, workers>>

\* The bytes framed, reassembled whole and deserialized.
Deserialize ==
  /\ codec.phase = "bytes"
  /\ codec' = [phase |-> "decoded", packet |-> codec.packet, bytes |-> codec.bytes, result |-> deserialize_packet(codec.bytes)]
  /\ UNCHANGED <<sender, receiver, sfs, rfs, s2r, r2s, env, last, slog, rlog, workers>>

\* ------------------------------------------------------------------------
\* Specifications
\* ------------------------------------------------------------------------

\* One sender and one receiver over a reliable stream.
InitSystem ==
  /\ workers = NoWorkers
  /\ \E listing \in Listings, content \in FileContents :
       /\ sender = SenderConnection(listing)
       /\ sfs = SenderDisk(listing, content)
  /\ receiver = ReceiverConnection
  /\ rfs = ReceiverDisk
  /\ s2r = <<>> /\ r2s = <<>>
  /\ env = Env("system")
  /\ last = NoLast /\ slog = <<>> /\ rlog = <<>>
  /\ codec = NoCodec

\* A receiver whose peer writes any packets in any order.
InitRecv ==
  /\ workers = NoWorkers
  /\ sender = SenderConnection(<<>>) /\ sfs = EmptyDisk
  /\ receiver = ReceiverConnection
  /\ rfs \in {ReceiverDisk, fs_put(ReceiverDisk, receive_directory \o <<Slash>> \o PathDF, <<9>>)}
  /\ s2r = <<>> /\ r2s = <<>>
  /\ env = Env("receiver")
  /\ last = NoLast /\ slog = <<>> /\ rlog = <<>>
  /\ codec = NoCodec

NextRecv == PeerSend \/ PeerSendRaw \/ PeerClose \/ ReceiverUpdate

SpecRecv == InitRecv /\ [][NextRecv]_vars

\* A sender whose peer writes any packets in any order.
InitSend ==
  /\ workers = NoWorkers
  /\ \E listing \in Listings, content \in {d \in FileContents : \A i \in DOMAIN d : d[i] = 1} :
       /\ sender = SenderConnection(listing)
       /\ sfs = SenderDisk(listing, content)
  /\ receiver = ReceiverConnection
  /\ rfs = ReceiverDisk
  /\ s2r = <<>> /\ r2s = <<>>
  /\ env = Env("sender")
  /\ last = NoLast /\ slog = <<>> /\ rlog = <<>>
  /\ codec = NoCodec

NextSend == SenderStart \/ SenderUpdate \/ PeerReply \/ PeerClose

SpecSend == InitSend /\ [][NextSend]_vars

\* A connection with its peer: the real peer, or one that writes anything.
Init == InitSystem \/ InitRecv

Next == SenderStart \/ SenderUpdate \/ ReceiverUpdate \/ FileChange \/ PeerSend \/ PeerSendRaw \/ PeerClose

Spec == Init /\ [][Next]_vars

\* One sender and one receiver when nothing fails and no file changes; the
\* sender's loop and the receiver's worker both keep running.
NextReliable == ReliableSenderStart \/ ReliableSenderUpdate \/ ReliableReceiverUpdate

SpecReliable == InitSystem /\ [][NextReliable]_vars /\ WF_vars(ReliableSenderStart) /\ WF_vars(ReliableSenderUpdate) /\ WF_vars(ReliableReceiverUpdate)

\* Either peer against the real one or against any other.
InitPeers == InitSystem \/ InitRecv \/ InitSend

NextPeers == SenderStart \/ SenderUpdate \/ ReceiverUpdate \/ FileChange \/ PeerSend \/ PeerSendRaw \/ PeerReply \/ PeerClose

SpecPeers == InitPeers /\ [][NextPeers]_vars

\* Longest run of frames in one byte stream.
MaxStreamFrames == 3

\* The packets of a transfer of one directory and one file of 2 bytes, as a
\* sender writes them one after the other.
TransferStream == <<SenderHello, CreateDirectory(PathD), CreateFile(PathG, U64(2), 0), FileChunk(<<1>>), FileChunk(<<2>>)>>

PacketStreams == {SubSeq(TransferStream, 1, n) : n \in 2..Min(MaxStreamFrames, Len(TransferStream))}

\* A receiver fed one byte stream, in any segmentation.
InitFraming ==
  /\ workers = NoWorkers
  /\ sender = SenderConnection(<<>>) /\ sfs = EmptyDisk
  /\ receiver = ReceiverConnection
  /\ rfs = ReceiverDisk
  /\ \/ \E P \in RawPayloads : s2r = FramePayload(P) /\ env = [Env("stream") EXCEPT !.kind = "frame", !.stream = FramePayload(P), !.payloads = <<P>>]
     \/ \E h \in HeaderStreams : s2r = h /\ env = [Env("stream") EXCEPT !.kind = "header", !.stream = h]
  /\ r2s = <<>>
  /\ last = NoLast /\ slog = <<>> /\ rlog = <<>>
  /\ codec = NoCodec

NextFraming == ReceiverUpdate \/ PeerClose

SpecFraming == InitFraming /\ [][NextFraming]_vars

\* A receiver fed a stream of several frames, in any segmentation.
InitStream ==
  /\ workers = NoWorkers
  /\ sender = SenderConnection(<<>>) /\ sfs = EmptyDisk
  /\ receiver = ReceiverConnection
  /\ rfs = ReceiverDisk
  /\ \E ps \in PacketStreams : s2r = FramePackets(ps) /\ env = [Env("stream") EXCEPT !.kind = "frames", !.stream = FramePackets(ps), !.payloads = [i \in DOMAIN ps |-> serialize_packet(<<>>, ps[i])]]
  /\ r2s = <<>>
  /\ last = NoLast /\ slog = <<>> /\ rlog = <<>>
  /\ codec = NoCodec

NextStream == ReceiverUpdate \/ PeerClose

SpecStream == InitStream /\ [][NextStream]_vars

\* The packet codec.
InitCodec ==
  /\ workers = NoWorkers
  /\ sender = SenderConnection(<<>>) /\ sfs = EmptyDisk
  /\ receiver = ReceiverConnection /\ rfs = ReceiverDisk
  /\ s2r = <<>> /\ r2s = <<>>
  /\ env = Env("codec")
  /\ last = NoLast /\ slog = <<>> /\ rlog = <<>>
  /\ codec \in {[phase |-> "packet", packet |-> q] : q \in CodecPackets}

NextCodec == Serialize \/ Deserialize

SpecCodec == InitCodec /\ [][NextCodec]_vars

\* ------------------------------------------------------------------------
\* FileListing
\* ------------------------------------------------------------------------

\* A directory tree on the sender's disk: for each path in it, whether it is
\* a directory and the names a directory_iterator reports, in its order.
Dot == 46

\* std::filesystem::path components
RECURSIVE Components(_)
Components(path) ==
  IF path = <<>> THEN <<>>
  ELSE LET slashes == {i \in DOMAIN path : path[i] = Slash}
           n == IF slashes = {} THEN Len(path) + 1 ELSE CHOOSE i \in slashes : \A k \in slashes : i <= k
       IN <<Take(path, n - 1)>> \o (IF n >= Len(path) THEN <<>> ELSE Components(Drop(path, n)))

RECURSIVE Joined(_)
Joined(components) == IF components = <<>> THEN <<>> ELSE IF Len(components) = 1 THEN components[1] ELSE components[1] \o <<Slash>> \o Joined(Tail(components))

RECURSIVE Resolved(_, _)
Resolved(components, out) ==
  IF components = <<>> THEN out
  ELSE LET c == Head(components)
       IN Resolved(Tail(components),
                   IF c = <<>> \/ c = <<Dot>> THEN out
                   ELSE IF c = <<Dot, Dot>> THEN Take(out, Len(out) - 1)
                   ELSE Append(out, c))

\* std::filesystem::canonical
canonical(path) == Joined(Resolved(Components(path), <<>>))

\* std::filesystem::path::filename
filename(path) == LET c == Components(path) IN IF c = <<>> \/ path[Len(path)] = Slash THEN <<>> ELSE c[Len(c)]

\* std::filesystem::exists, is_directory, directory_iterator
tree_exists(tree, path) == canonical(path) \in DOMAIN tree

tree_is_directory(tree, path) == tree[canonical(path)].type = "Directory"

directory_iterator(tree, path) == [i \in DOMAIN tree[canonical(path)].names |-> path \o <<Slash>> \o tree[canonical(path)].names[i]]

RECURSIVE process_file(_, _, _, _)
RECURSIVE process_sub_entries(_, _, _, _)

\* process_file listing a directory after what lies in it.
process_file_PostOrder(tree, relative_path, absolute_path, entries) ==
  LET is_directory == tree_is_directory(tree, absolute_path)
      entry == [type |-> IF is_directory THEN "Directory" ELSE "File", relative_path |-> relative_path, absolute_path |-> absolute_path]
  IN IF is_directory THEN Append(process_sub_entries(tree, relative_path, directory_iterator(tree, absolute_path), entries), entry)
     ELSE Append(entries, entry)

\* process_file (FileListing.cpp)
process_file(tree, relative_path, absolute_path, entries) ==
  LET is_directory == tree_is_directory(tree, absolute_path)
      pushed == Append(entries, [type |-> IF is_directory THEN "Directory" ELSE "File", relative_path |-> relative_path, absolute_path |-> absolute_path])
  IN IF is_directory THEN process_sub_entries(tree, relative_path, directory_iterator(tree, absolute_path), pushed)
     ELSE pushed

\* The loop of process_file over the directory's entries.
process_sub_entries(tree, relative_path, sub_entries, entries) ==
  IF sub_entries = <<>> THEN entries
  ELSE process_sub_entries(tree, relative_path, Tail(sub_entries),
                           process_file(tree, relative_path \o <<Slash>> \o filename(Head(sub_entries)), Head(sub_entries), entries))

\* FileListing::add
FileListing_add(tree, entries, path) == LET full_path == canonical(path) IN process_file(tree, filename(full_path), full_path, entries)

\* The most entries of a directory tree.
MaxTreeEntries == 5

\* Names of directory entries, and the orders an iterator may report them in.
EntryNames == {<<101>>, <<102>>}

Orderings(names) == {q \in SeqsUpTo(names, Cardinality(names)) : \A i, j \in DOMAIN q : i # j => q[i] # q[j]}

NoTree == [q \in {} |-> q]

RECURSIVE TreesAt(_, _)
RECURSIVE TreesBelow(_, _, _)

\* The trees at `path` of at most `budget` entries.
TreesAt(path, budget) ==
  {path :> [type |-> "File", names |-> <<>>]}
  \cup UNION {{(path :> [type |-> "Directory", names |-> q]) @@ below : below \in TreesBelow(path, q, budget - 1)} : q \in {o \in Orderings(EntryNames) : Len(o) <= budget - 1}}

\* The ways to fill the entries `names` of the directory `path`.
TreesBelow(path, names, budget) ==
  IF names = <<>> THEN {NoTree}
  ELSE UNION {{first @@ rest : rest \in TreesBelow(path, Tail(names), budget - Cardinality(DOMAIN first))} : first \in TreesAt(path \o <<Slash>> \o Head(names), budget - (Len(names) - 1))}

\* The path of the tree, as the canonical path and as other spellings of it
\* on a command line.
TreeRoot == LocalPath(PathD)

Spellings(tree) ==
  {TreeRoot, <<83, Slash, Dot, Slash>> \o PathD, <<83, Slash, Slash>> \o PathD}
  \cup (IF tree[TreeRoot].type = "Directory" THEN {TreeRoot \o <<Slash>>, TreeRoot \o <<Slash, Dot>>} ELSE {})
  \cup (IF tree[TreeRoot].names # <<>> /\ tree[TreeRoot \o <<Slash>> \o tree[TreeRoot].names[1]].type = "Directory" THEN {TreeRoot \o <<Slash>> \o tree[TreeRoot].names[1] \o <<Slash, Dot, Dot>>} ELSE {})

ListingEnv(tree, argument) == [mode |-> "listing", started |-> FALSE, closed |-> FALSE, changed |-> FALSE, nrecv |-> 0, npeer |-> 0, kind |-> "none", stream |-> <<>>, payloads |-> <<>>, tree |-> tree, argument |-> argument, built |-> FALSE]

\* tools::sender::run: listing.add(argument), finalize(), and the connection
\* made of the entries.
BuildListing ==
  /\ env.mode = "listing" /\ ~env.built
  /\ tree_exists(env.tree, env.argument)
  /\ sender' = SenderConnection(FileListing_add(env.tree, <<>>, env.argument))
  /\ env' = [env EXCEPT !.built = TRUE]
  /\ last' = [who |-> "listing", ev |-> <<>>]
  /\ UNCHANGED <<receiver, sfs, rfs, s2r, r2s, slog, rlog, codec, workers>>

InitListing ==
  /\ workers = NoWorkers
  /\ sender = SenderConnection(<<>>) /\ sfs = EmptyDisk
  /\ receiver = ReceiverConnection /\ rfs = ReceiverDisk
  /\ s2r = <<>> /\ r2s = <<>>
  /\ \E tree \in TreesAt(TreeRoot, MaxTreeEntries) : \E argument \in Spellings(tree) : env = ListingEnv(tree, argument)
  /\ last = NoLast /\ slog = <<>> /\ rlog = <<>>
  /\ codec = NoCodec

NextListing == BuildListing

SpecListing == InitListing /\ [][NextListing]_vars

\* ------------------------------------------------------------------------
\* Properties
\* ------------------------------------------------------------------------

\* Reading the logs.
Indices(log, kind) == {i \in DOMAIN log : log[i].e = kind}

FramesDelivered(log) == LET f == SelectSeq(log, LAMBDA r : r.e = "frame") IN [i \in 1..Len(f) |-> f[i].payload]

UpdateCalls == Indices(last.ev, "update")

\* The magic as it stands on the wire.
MagicOnWire == <<241, 80, 204, 194>>

\* C1: a payload P of 1 .. 8 MiB - 8 bytes framed by FrameSender and fed to
\* a FrameReceiver, in one piece or split anywhere into several receives,
\* is delivered as exactly one frame whose payload is P: nothing else is
\* ever delivered, and P is delivered once the last byte was received.
C1_FrameRoundTrip ==
  env.kind = "frame" =>
    /\ FramesDelivered(rlog) \in {<<>>, env.payloads}
    /\ s2r = <<>> => FramesDelivered(rlog) = env.payloads
    /\ FramesDelivered(rlog) # <<>> => receiver.frame_receiver.buffer = <<>>

C1_Witness ==
  /\ env.kind = "frame" /\ env.nrecv = 2 /\ s2r = <<>>
  /\ Len(env.payloads[1]) = MaxPayload
  /\ FramesDelivered(rlog) = env.payloads

\* C7 as stated: FrameReceiver::update answers MalformedStream on the first
\* call that has the stream's first 4 bytes buffered when they are not the
\* magic, also when fewer than 8 bytes have been received.
C7_MalformedWithFourBytes ==
  \A i \in UpdateCalls :
    Len(last.ev[i].buffer) >= 4 /\ Take(env.stream, 4) # MagicOnWire => last.ev[i].result = "MalformedStream"

\* C7: when the stream's first 4 bytes are not the magic, update answers
\* MalformedStream on the first call that has 8 bytes buffered, and
\* NeedMoreData on every call before it.
C7_MalformedWithHeader ==
  \A i \in UpdateCalls :
    Len(env.stream) >= 4 /\ Take(env.stream, 4) # MagicOnWire =>
      /\ Len(last.ev[i].buffer) >= 8 => last.ev[i].result = "MalformedStream" /\ ~receiver.alive
      /\ Len(last.ev[i].buffer) < 8 => last.ev[i].result = "NeedMoreData"

C7_Witness ==
  /\ env.nrecv = 2
  /\ \E i \in UpdateCalls :
       /\ Take(last.ev[i].buffer, 4) # MagicOnWire
       /\ Len(last.ev[i].buffer) = 8
       /\ last.ev[i].result = "MalformedStream"

\* The length field of a buffered header, tested on its bytes.
LengthAtMostHeader(b) == b[5] = 0 /\ b[6] = 0 /\ b[7] = 0 /\ b[8] <= 8

LengthAboveMax(b) == b[5] > 0 \/ b[6] > 128 \/ (b[6] = 128 /\ (b[7] > 0 \/ b[8] > 0))

HeaderParsed(u) == u.pending = <<65535, 65535>> /\ Len(u.buffer) >= 8

\* C8: a header with the right magic and length field L is answered with
\* MalformedStream iff L <= 8 or L > 8 MiB; the connection is then not
\* alive, nothing is delivered after it, and the pending size stays unset.
C8_LengthBounds ==
  \A i \in UpdateCalls :
    LET u == last.ev[i] IN
    HeaderParsed(u) /\ Take(u.buffer, 4) = MagicOnWire =>
      /\ u.result = "MalformedStream" <=> LengthAtMostHeader(u.buffer) \/ LengthAboveMax(u.buffer)
      /\ u.result = "MalformedStream" =>
           /\ ~receiver.alive
           /\ receiver.frame_receiver.pending_frame_size = <<65535, 65535>>
           /\ \A j \in DOMAIN last.ev : j > i => last.ev[j].e \notin {"update", "frame", "packet", "send"}
           /\ FramesDelivered(rlog) = <<>>

C8_Witness ==
  \E i \in UpdateCalls :
    /\ HeaderParsed(last.ev[i])
    /\ Take(last.ev[i].buffer, 8) = MagicOnWire \o <<0, 128, 0, 1>>
    /\ last.ev[i].result = "MalformedStream"
    /\ ~receiver.alive

\* The size the wire format gives a packet: its tag and its fields.
WireSize(packet) ==
  CASE packet.id \in {PacketID_ReceiverHello, PacketID_SenderHello} -> 2
    [] packet.id = PacketID_Acknowledged -> 2 + 1
    [] packet.id = PacketID_CreateDirectory -> 2 + Len(packet.path)
    [] packet.id = PacketID_CreateFile -> 2 + 8 + 2 + Len(packet.path)
    [] packet.id = PacketID_FileChunk -> 2 + Len(packet.data)
    [] packet.id = PacketID_VerifyFile -> 2 + 8

\* C2: every packet that is serialized and then deserialized comes back
\* with the same tag and the same field values, CreateFile's flags and
\* VerifyFile's hash included, and its bytes are its tag and fields only.
C2_PacketRoundTrip ==
  codec.phase = "decoded" =>
    /\ codec.result.ok
    /\ codec.result.packet.id = codec.packet.id
    /\ codec.result.packet = codec.packet
    /\ Len(codec.bytes) = WireSize(codec.packet)

\* More reading of the logs.
Within(log, from, to, kind) == {i \in Indices(log, kind) : from < i /\ i < to}

NthIndex(log, kind, n) == CHOOSE i \in Indices(log, kind) : Cardinality({k \in Indices(log, kind) : k <= i}) = n

IsPacket(r, id) == r.e = "packet" /\ r.packet.id = id

IsSend(r, id) == r.e = "send" /\ r.packet.id = id

DataOf(r) == IF r.e = "packet" THEN r.packet.data ELSE r.data

RECURSIVE CatData(_, _)
CatData(log, S) == IF S = {} THEN <<>> ELSE LET m == CHOOSE i \in S : \A j \in S : j <= i IN CatData(log, S \ {m}) \o DataOf(log[m])

\* A download context opened at rlog[i] lives until the next cleanup or
\* verification (or the end of the log).
ContextEnd(i) == LET ends == {k \in DOMAIN rlog : k > i /\ rlog[k].e \in {"cleanup", "verified"}} IN IF ends = {} THEN Len(rlog) + 1 ELSE CHOOSE k \in ends : \A m \in ends : k <= m

ContextOpenAt(k) == \E i \in Indices(rlog, "download") : i < k /\ k < ContextEnd(i)

\* The size the CreateFile that opened the context at rlog[i] declared.
DeclaredSize(i) == LET ps == {k \in Indices(rlog, "packet") : k < i} IN rlog[CHOOSE k \in ps : \A m \in ps : m <= k].packet.size

\* The FileChunk packets handed to the receiver in rlog[from + 1 .. to - 1].
ChunksWithin(from, to) == {k \in Within(rlog, from, to, "packet") : rlog[k].packet.id = PacketID_FileChunk}

FedWithin(from, to) == Len(CatData(rlog, ChunksWithin(from, to)))

\* C6: after a CreateFile declaring N was accepted, the chunk that takes
\* the plaintext fed past N is a protocol error at once; the receiver is in
\* WaitingForHash only when exactly N bytes were fed; and a VerifyFile that
\* arrives with fewer than N bytes fed is a protocol error.
C6_DeclaredSizeEnforced ==
  \A i \in Indices(rlog, "download") :
    LET N == DeclaredSize(i)
        end == ContextEnd(i)
    IN /\ \A k \in ChunksWithin(i, end) :
            WordsLess(N, U64(FedWithin(i, k + 1))) =>
              /\ ~receiver.alive
              /\ \E m \in Within(rlog, k, end, "protocol_error") : \A j \in (k + 1)..m : rlog[j].e \notin {"frame", "packet", "send"}
       /\ end = Len(rlog) + 1 /\ receiver.alive /\ receiver.state = "WaitingForHash" => U64(FedWithin(i, end)) = N
       /\ end = Len(rlog) + 1 /\ receiver.alive /\ WordsLess(U64(FedWithin(i, end)), N) => receiver.state = "Downloading"
       /\ \A k \in Within(rlog, i, end, "frame") :
            Take(rlog[k].payload, 2) = <<0, 7>> /\ WordsLess(U64(FedWithin(i, k)), N) => rlog[k + 1].e = "protocol_error"

C6_Witness ==
  \E i \in Indices(rlog, "download") :
    /\ DeclaredSize(i) = <<0, 0, 0, 1>>
    /\ FedWithin(i, ContextEnd(i)) = 2
    /\ \E m \in Indices(rlog, "protocol_error") : rlog[m].description = "got more file data than expected"
    /\ ~receiver.alive

\* C9: once the receiver's connection is not alive, no file whose download
\* was started and not verified is left on the disk.
C9_PartialDownloadRemoved ==
  ~receiver.alive =>
    \A i \in Indices(rlog, "download") :
      (\A k \in Indices(rlog, "verified") : k < i \/ rlog[k].path # rlog[i].path) => rlog[i].path \notin DOMAIN rfs.files

C9_Witness ==
  /\ ~receiver.alive
  /\ \E i \in Indices(rlog, "download") :
       /\ Within(rlog, i, Len(rlog) + 1, "write") # {}
       /\ \E k \in Indices(rlog, "disconnected") : k > i
       /\ rlog[i].path \notin DOMAIN rfs.files

\* The sender's writes, in order; the k-th is the k-th frame on the stream.
SenderSends == SelectSeq(slog, LAMBDA r : r.e = "send")

TerminalPacket(entry) == IF entry.type = "Directory" THEN PacketID_CreateDirectory ELSE PacketID_VerifyFile

\* The receiver answered the j-th frame of the stream with an Acknowledged.
AckedFrame(j) ==
  /\ j <= Cardinality(Indices(rlog, "frame"))
  /\ LET f == NthIndex(rlog, "frame", j)
         next == IF j < Cardinality(Indices(rlog, "frame")) THEN NthIndex(rlog, "frame", j + 1) ELSE Len(rlog) + 1
     IN \E m \in Within(rlog, f, next, "send") : rlog[m].packet.id = PacketID_Acknowledged

\* C3: for listing entries a before b, no packet of b is on the stream (so
\* none is received) before the receiver has sent the Acknowledged for a's
\* terminal packet: CreateDirectory of a directory, VerifyFile of a file.
C3_EntriesInOrder ==
  \A k \in DOMAIN SenderSends :
    SenderSends[k].packet.id \in {PacketID_CreateDirectory, PacketID_CreateFile, PacketID_FileChunk, PacketID_VerifyFile} =>
      \A a \in 0..(SenderSends[k].entry - 1) :
        \E j \in 1..(k - 1) :
          /\ SenderSends[j].entry = a
          /\ SenderSends[j].packet.id = TerminalPacket(sender.send_entries[a + 1])
          /\ AckedFrame(j)

C3_Witness ==
  /\ Cardinality(Indices(rlog, "frame")) = 3
  /\ \E k \in DOMAIN SenderSends : SenderSends[k].entry = 1 /\ k = 3
  /\ rlog[Len(rlog)].e = "send"

\* C4: for every file whose VerifyFile reached the receiver, the receiver
\* answers Acknowledged(true) iff the bytes it wrote for the file are the
\* bytes the sender read and hashed for it.
C4_AcceptedIffSameBytes ==
  env.mode = "system" =>
    \A k \in Indices(rlog, "frame") :
      Take(rlog[k].payload, 2) = <<0, 7>> /\ ContextOpenAt(k) =>
        LET i == CHOOSE d \in Indices(rlog, "download") : d < k /\ k < ContextEnd(d)
            n == Cardinality({d \in Indices(rlog, "download") : d <= i})
            u == NthIndex(slog, "upload", n)
            uend == CHOOSE m \in Indices(slog, "upload_end") : m > u /\ Within(slog, u, m, "upload_end") = {}
            written == CatData(rlog, Within(rlog, i, k, "write"))
            hashed == CatData(slog, Within(slog, u, uend, "read"))
            accepted == \E m \in Indices(rlog, "send") : m > k /\ Within(rlog, k, m, "frame") = {} /\ rlog[m].packet.id = PacketID_Acknowledged /\ rlog[m].packet.accepted
        IN accepted <=> written = hashed

\* C5: a connection never holds more than one transfer context: none is
\* created while one exists, the sender's uploads do not overlap, and a
\* CreateFile that reaches the receiver while a download context exists is
\* a protocol error that opens nothing.
C5_OneTransferContext ==
  /\ \A i \in Indices(slog, "upload") : ~slog[i].replaced
  /\ \A i \in Indices(rlog, "download") : ~rlog[i].replaced
  /\ \A i, j \in Indices(slog, "upload") : i < j => Within(slog, i, j, "upload_end") # {}
  /\ \A k \in DOMAIN rlog :
       IsPacket(rlog[k], PacketID_CreateFile) /\ ContextOpenAt(k) =>
         /\ rlog[k + 1].e = "protocol_error"
         /\ Within(rlog, k, Len(rlog) + 1, "download") = {}
         /\ receiver.download = Null

C5_Witness ==
  \E k \in DOMAIN rlog :
    /\ IsPacket(rlog[k], PacketID_CreateFile) /\ ContextOpenAt(k)
    /\ Within(rlog, 0, k, "write") # {}
    /\ rlog[k + 1].e = "protocol_error"

\* C10: the sender's first packet is SenderHello and it writes no
\* CreateDirectory or CreateFile before it received ReceiverHello; the
\* receiver writes nothing before it received SenderHello and answers the
\* SenderHello with exactly one ReceiverHello.
C10_HandshakeOrder ==
  /\ SenderSends # <<>> => SenderSends[1].packet.id = PacketID_SenderHello
  /\ \A i \in Indices(slog, "send") :
       slog[i].packet.id \in {PacketID_CreateDirectory, PacketID_CreateFile} => \E j \in 1..(i - 1) : IsPacket(slog[j], PacketID_ReceiverHello)
  /\ \A i \in Indices(rlog, "send") : \E j \in 1..(i - 1) : IsPacket(rlog[j], PacketID_SenderHello)
  /\ Cardinality({i \in DOMAIN rlog : IsSend(rlog[i], PacketID_ReceiverHello)}) <= 1
  /\ \A j \in DOMAIN rlog :
       IsPacket(rlog[j], PacketID_SenderHello) /\ Within(rlog, 0, j, "packet") = {} =>
         IsSend(rlog[j + 1], PacketID_ReceiverHello) \/ rlog[j + 1].e \in {"disconnected", "error"}

C10_Witness ==
  /\ \E i \in DOMAIN slog : IsSend(slog[i], PacketID_CreateFile)
  /\ \E i \in DOMAIN rlog : IsSend(rlog[i], PacketID_ReceiverHello)
  /\ Cardinality(Indices(rlog, "frame")) = 2

\* Out-of-order packets, as the receiver names them.
ReceiverOutOfOrder == {"received unexpected ReceiverHello packet", "received unxpected SenderHello packet", "received unexpected Acknowledged packet", "received unexpected CreateDirectory packet", "received unexpected CreateFile packet", "received unxpected Acknowledged packet"}

SendsAfter(log, i) == {k \in Indices(log, "send") : k > i}

\* C11 as stated: once a peer has raised a protocol error it writes no
\* further packet.
C11_SilentAfterProtocolError ==
  /\ \A i \in Indices(slog, "protocol_error") : SendsAfter(slog, i) = {}
  /\ \A i \in Indices(rlog, "protocol_error") : SendsAfter(rlog, i) = {}

\* C11: after a protocol error the sender writes nothing; the receiver
\* writes nothing after a decode failure or an out-of-order packet, and
\* after a rejection raised while it handles a CreateDirectory, CreateFile
\* or VerifyFile it writes only the one Acknowledged(accepted=false) that
\* answers that packet.
C11_OnlyRejectionAfterProtocolError ==
  /\ \A i \in Indices(slog, "protocol_error") : SendsAfter(slog, i) = {}
  /\ \A i \in Indices(rlog, "protocol_error") :
       /\ Cardinality(SendsAfter(rlog, i)) <= 1
       /\ rlog[i - 1].e = "frame" \/ rlog[i].description \in ReceiverOutOfOrder => SendsAfter(rlog, i) = {}
       /\ \A k \in SendsAfter(rlog, i) :
            /\ rlog[k].packet.id = PacketID_Acknowledged /\ ~rlog[k].packet.accepted
            /\ Within(rlog, i, k, "frame") = {}
            /\ \E j \in 1..(i - 1) :
                 /\ rlog[j].e = "packet" /\ rlog[j].packet.id \in {PacketID_CreateDirectory, PacketID_CreateFile, PacketID_VerifyFile}
                 /\ Within(rlog, j, i, "packet") = {}

C11_Witness ==
  /\ env.mode = "system"
  /\ \E i \in Indices(rlog, "protocol_error") : \E k \in SendsAfter(rlog, i) : ~rlog[k].packet.accepted
  /\ \E i \in Indices(slog, "protocol_error") : slog[i - 1].e = "packet"


\* ------------------------------------------------------------------------
\* C12
\* ------------------------------------------------------------------------

\* The whole frames at the front of a frame receiver's buffer.
BufferedFrames(c) == FrameEnds(c.frame_receiver.buffer, 0)

\* Nothing of the state machine runs in a call after set_not_alive: no
\* FrameReceiver::update, no frame handed over, no packet handler.
QuietAfterNotAlive(ev) ==
  \A i \in Indices(ev, "set_not_alive") : \A k \in DOMAIN ev : k > i => ev[k].e \notin {"update", "frame", "packet"}

\* C12: on either peer, once alive() is false it stays false, and from the
\* set_not_alive on no frame is taken from the reassembler and no packet
\* handler runs, in that call or in any later one, whatever is buffered.
C12_DeadStaysDead ==
  [][/\ ~receiver.alive => ~receiver'.alive /\ rlog' = rlog /\ receiver'.state = receiver.state
     /\ ~sender.alive => ~sender'.alive /\ slog' = slog /\ sender'.state = sender.state
     /\ QuietAfterNotAlive(last'.ev)
     /\ last'.who = "receiver" /\ Indices(last'.ev, "set_not_alive") # {} => ~receiver'.alive
     /\ last'.who = "sender" /\ Indices(last'.ev, "set_not_alive") # {} => ~sender'.alive]_vars

\* A peer has stopped with a whole frame still in the reassembler: the
\* receiver on a protocol error, the sender as Finished.
C12_Witness ==
  /\ env.mode = "system" /\ last.who = "receiver" /\ ~receiver.alive
  /\ BufferedFrames(receiver) # {}
  /\ \E i \in Indices(last.ev, "protocol_error") : \E j \in Indices(last.ev, "packet") : j < i

C12_FinishedWithFrames ==
  /\ env.mode = "sender" /\ last.who = "sender" /\ ~sender.alive
  /\ sender.state = "Finished"
  /\ BufferedFrames(sender) # {}


\* ------------------------------------------------------------------------
\* C13
\* ------------------------------------------------------------------------

\* The first frame handed over in a call, if any.
FirstFrame(ev) == LET frames == Indices(ev, "frame") IN IF frames = {} THEN <<>> ELSE ev[CHOOSE i \in frames : \A k \in frames : i <= k].payload

\* The VerifyFile packets whose hash is not the finalized hash of what the
\* receiver has written.
WrongVerifyFile == {p \in PeerPackets \cup {VerifyFile(XXH3_64bits_digest(d)) : d \in FileContents} : p.id = PacketID_VerifyFile /\ p.hash # XXH3_64bits_digest(receiver.download_hasher)}

\* C13: a receiver in WaitingForHash that is handed a VerifyFile with another
\* hash than its own answers Acknowledged(accepted=false), is not alive
\* afterwards and has unlinked the file; a sender waiting for the upload to
\* be acknowledged that is handed Acknowledged(accepted=false) is not alive
\* afterwards and not Finished.
C13_HashMismatchRejected ==
  [][/\ /\ last'.who = "receiver" /\ receiver.state = "WaitingForHash"
        /\ \E p \in WrongVerifyFile : FirstFrame(last'.ev) = serialize_packet(<<>>, p)
        => /\ \E k \in Indices(last'.ev, "send") : last'.ev[k].packet = Acknowledged(FALSE)
           /\ ~receiver'.alive
           /\ receiver.download.fs_path \notin DOMAIN rfs'.files
     /\ /\ last'.who = "sender" /\ sender.state = "WaitingForUploadAcknowledgement"
        /\ FirstFrame(last'.ev) = serialize_packet(<<>>, Acknowledged(FALSE))
        => ~sender'.alive /\ sender'.state # "Finished"]_vars


\* ------------------------------------------------------------------------
\* C14
\* ------------------------------------------------------------------------

\* What the sender says of an Acknowledged(accepted=false), state by state.
SenderRejections == {"received unexpected Acknowledged packet", "server creation the directory creation request", "server rejected the file creation request", "server rejected the file upload"}

\* C14: whatever state the sender is in when it is handed
\* Acknowledged(accepted=false), the handler raises a protocol error and
\* nothing else: no packet is written afterwards, the sender is not alive,
\* it is not Finished, and it is at the listing entry and in the state it
\* was in.
C14_RejectionStopsSender ==
  [][/\ \A i \in Indices(slog', "packet") :
          slog'[i].packet = Acknowledged(FALSE) =>
            /\ i < Len(slog') /\ slog'[i + 1].e = "protocol_error" /\ slog'[i + 1].description \in SenderRejections
            /\ \A k \in DOMAIN slog' : k > i + 1 => slog'[k].e \notin {"send", "packet", "upload", "read"}
            /\ ~sender'.alive /\ sender'.state # "Finished"
     /\ last'.who = "sender" /\ FirstFrame(last'.ev) = serialize_packet(<<>>, Acknowledged(FALSE))
        => sender'.current_send_entry = sender.current_send_entry /\ sender'.state = sender.state /\ sender'.upload = sender.upload]_vars

\* The sender was handed the rejection while it waited for the upload of the
\* first of two entries to be acknowledged.
C14_Witness ==
  /\ env.mode = "sender" /\ ~sender.alive
  /\ sender.state = "WaitingForUploadAcknowledgement"
  /\ Len(sender.send_entries) = 2 /\ sender.current_send_entry = 0
  /\ slog[Len(slog)].e = "protocol_error" /\ slog[Len(slog)].description = "server rejected the file upload"
  /\ slog[Len(slog) - 1].e = "packet" /\ slog[Len(slog) - 1].packet = Acknowledged(FALSE)


\* ------------------------------------------------------------------------
\* C15
\* ------------------------------------------------------------------------

\* The receiver's path of a listing entry.
Destination(entry) == receive_directory \o <<Slash>> \o entry.relative_path

EntriesOf(type) == {i \in DOMAIN sender.send_entries : sender.send_entries[i].type = type}

\* The receiver has made every listed directory and verified every listed
\* file.
AllReceived ==
  /\ \A i \in EntriesOf("Directory") : \E k \in Indices(rlog, "mkdir") : rlog[k].path = Destination(sender.send_entries[i])
  /\ \A i \in EntriesOf("File") : \E k \in Indices(rlog, "verified") : rlog[k].path = Destination(sender.send_entries[i])

\* No step of the failure-free system is possible: start() has run, and
\* each connection is either not alive or blocked in receive() on an empty
\* stream whose other end is still open.
AtRest ==
  /\ env.started
  /\ ~(sender.alive /\ (r2s # <<>> \/ ~receiver.alive))
  /\ ~(receiver.alive /\ (s2r # <<>> \/ ~sender.alive))

\* C15: when nothing fails, no destination exists and no file changes, the
\* sender eventually is Finished and the receiver eventually is back in Idle
\* with every listed directory made and every listed file verified.  Every
\* step of such a run consumes bytes in flight or ends a connection, so the
\* run comes to rest; this states what holds where it rests.
C15_TransferCompletes ==
  AtRest => sender.state = "Finished" /\ receiver.state = "Idle" /\ AllReceived


\* ------------------------------------------------------------------------
\* C16
\* ------------------------------------------------------------------------

\* The sender wrote the terminal packet of entry a and the next packet it
\* was handed after that is Acknowledged(accepted=true).
TerminalAcknowledged(a) ==
  \E j \in Indices(slog, "send") :
    /\ slog[j].entry = a /\ slog[j].packet.id = TerminalPacket(sender.send_entries[a + 1])
    /\ \E k \in Indices(slog, "packet") : k > j /\ Within(slog, j, k, "packet") = {} /\ slog[k].packet = Acknowledged(TRUE)

SenderFailures == Indices(slog, "error") \cup Indices(slog, "disconnected") \cup Indices(slog, "protocol_error")

\* C16: finished() is true only when the terminal packet of every listing
\* entry has been answered with Acknowledged(accepted=true), and not in any
\* run of the sender in which a transport error, a disconnect, a protocol
\* error or a rejection has happened.
C16_FinishedMeansAllAcknowledged ==
  finished(sender) =>
    /\ \A a \in 0..(Len(sender.send_entries) - 1) : TerminalAcknowledged(a)
    /\ SenderFailures = {}
    /\ ~sender.alive /\ sender.current_send_entry = Len(sender.send_entries)

\* Finished after a file and a directory.
C16_Witness ==
  /\ env.mode = "sender" /\ finished(sender)
  /\ Len(sender.send_entries) = 2
  /\ sender.send_entries[1].type = "File" /\ sfs.files[sender.send_entries[1].absolute_path] # <<>>
  /\ TerminalAcknowledged(0) /\ TerminalAcknowledged(1)


\* ------------------------------------------------------------------------
\* C17
\* ------------------------------------------------------------------------

\* The requests of the peer whose path has "::" in it: at the front, inside
\* or at the end.
ColonRequests == {p \in PeerPackets : p.id \in {PacketID_CreateDirectory, PacketID_CreateFile} /\ p.path \in {PathColonsFirst, PathColonsInside, PathColons}}

\* C17: a receiver in Idle that is handed a CreateDirectory or CreateFile
\* whose path contains "::" leaves the disk as it is and opens no download,
\* raises a protocol error, and writes nothing but Acknowledged with
\* accepted=false.
C17_ColonPathsRejected ==
  [][/\ last'.who = "receiver" /\ receiver.state = "Idle"
     /\ \E p \in ColonRequests : FirstFrame(last'.ev) = serialize_packet(<<>>, p)
     => /\ rfs' = rfs /\ receiver'.download = Null
        /\ Indices(last'.ev, "mkdir") = {} /\ Indices(last'.ev, "download") = {}
        /\ Indices(last'.ev, "protocol_error") # {} /\ ~receiver'.alive
        /\ \A k \in Indices(last'.ev, "send") : last'.ev[k].packet = Acknowledged(FALSE)]_vars

\* A CreateFile with "::" inside its path was rejected and answered, with a
\* directory already made.
C17_Witness ==
  /\ env.mode = "receiver" /\ last.who = "receiver" /\ ~receiver.alive
  /\ rfs.dirs # {receive_directory}
  /\ \E i \in Indices(last.ev, "packet") : last.ev[i].packet.id = PacketID_CreateFile /\ last.ev[i].packet.path = PathColonsInside
  /\ \E k \in Indices(last.ev, "send") : last.ev[k].packet = Acknowledged(FALSE)


\* ------------------------------------------------------------------------
\* C18
\* ------------------------------------------------------------------------

\* Where a path of the tree is listed.
ListedAt(path) == {i \in DOMAIN sender.send_entries : sender.send_entries[i].absolute_path = path}

Beneath(path, directory) == Len(path) > Len(directory) + 1 /\ Take(path, Len(directory) + 1) = directory \o <<Slash>>

\* C18: the listing FileListing::add builds of a directory tree starts with
\* the root under the name of the path the argument stands for, lists a
\* directory before everything beneath it, lists the entries of a directory
\* in the order the iterator reports them, and lists every path of the tree
\* once, with its kind, and nothing else.
C18_ListingOfTree ==
  env.mode = "listing" /\ env.built =>
    LET entries == sender.send_entries
    IN /\ entries # <<>>
       /\ entries[1].relative_path = PathD /\ entries[1].absolute_path = TreeRoot
       /\ \A i, j \in DOMAIN entries :
            entries[i].type = "Directory" /\ Beneath(entries[j].relative_path, entries[i].relative_path) => i < j
       /\ \A path \in DOMAIN env.tree : \A a, b \in DOMAIN env.tree[path].names :
            a < b => \A i \in ListedAt(path \o <<Slash>> \o env.tree[path].names[a]), j \in ListedAt(path \o <<Slash>> \o env.tree[path].names[b]) : i < j
       /\ \A path \in DOMAIN env.tree :
            /\ Cardinality(ListedAt(path)) = 1
            /\ \A i \in ListedAt(path) : entries[i].type = env.tree[path].type /\ LocalPath(entries[i].relative_path) = path
       /\ Len(entries) = Cardinality(DOMAIN env.tree)

\* A tree of five entries with a directory in a directory, named on the
\* command line by another spelling than its canonical path.
C18_Witness ==
  /\ env.mode = "listing" /\ env.built
  /\ env.argument # TreeRoot
  /\ Len(sender.send_entries) = 5
  /\ \E i, j \in DOMAIN sender.send_entries : i > 1 /\ sender.send_entries[i].type = "Directory" /\ Beneath(sender.send_entries[j].relative_path, sender.send_entries[i].relative_path)
  /\ env.tree[TreeRoot].names = <<<<102>>, <<101>>>>


\* ------------------------------------------------------------------------
\* C19
\* ------------------------------------------------------------------------

\* The packets of the events of one call.
PacketsHandled(ev) == {ev[i].packet : i \in Indices(ev, "packet")}

\* A payload that is no packet raises a protocol error, reaches no handler
\* and leaves the protocol state as it was.
MalformedRejected ==
  last'.who = "receiver" /\ FirstFrame(last'.ev) \in MalformedPayloads
  => /\ Indices(last'.ev, "protocol_error") # {} /\ ~receiver'.alive
     /\ PacketsHandled(last'.ev) = {}
     /\ receiver'.state = receiver.state

\* A well-formed payload of the tags in `ids` reaches the handler of its
\* packet.
Delivered(ids) ==
  last'.who = "receiver"
  => \A p \in PeerPackets : p.id \in ids /\ FirstFrame(last'.ev) = serialize_packet(<<>>, p) => p \in PacketsHandled(last'.ev)

\* C19: a frame payload with a tag outside 1..7, too short for its tag or
\* with bytes left over raises a protocol error, reaches no packet handler
\* and leaves the protocol state unchanged; a well-formed payload of any tag
\* in 1..7 reaches the handler of its packet.
C19_DecodedOrRejected == [][MalformedRejected /\ Delivered(PacketID_ReceiverHello..PacketID_VerifyFile)]_vars


\* ------------------------------------------------------------------------
\* C20
\* ------------------------------------------------------------------------

\* Where the sender wrote a CreateDirectory or a CreateFile.
Announcements == {i \in Indices(slog, "send") : slog[i].packet.id \in {PacketID_CreateDirectory, PacketID_CreateFile}}

\* The n-th of them.
Announcement(n) == CHOOSE i \in Announcements : Cardinality({k \in Announcements : k <= i}) = n

\* Before position `n` of its log the sender wrote the terminal packet of
\* entry a, and the next packet it was handed was Acknowledged(accepted=true).
AcknowledgedBefore(a, n) ==
  \E j \in Indices(slog, "send") :
    /\ slog[j].entry = a /\ slog[j].packet.id = TerminalPacket(sender.send_entries[a + 1])
    /\ \E k \in Indices(slog, "packet") : j < k /\ k < n /\ Within(slog, j, k, "packet") = {} /\ slog[k].packet = Acknowledged(TRUE)

\* C20: the CreateDirectory and CreateFile packets the sender has written
\* are, in order, those of the first entries of the listing: the n-th is of
\* the kind of the n-th entry and carries its relative path, so no entry is
\* announced twice, and it is written only after Acknowledged(accepted=true)
\* was received for the terminal packet of the entry before.
C20_AnnouncementsArePrefix ==
  /\ Cardinality(Announcements) <= Len(sender.send_entries)
  /\ \A n \in 1..Cardinality(Announcements) :
       LET sent == slog[Announcement(n)]
           entry == sender.send_entries[n]
       IN /\ sent.entry = n - 1
          /\ sent.packet.id = (IF entry.type = "Directory" THEN PacketID_CreateDirectory ELSE PacketID_CreateFile)
          /\ sent.packet.path = entry.relative_path
          /\ n > 1 => AcknowledgedBefore(n - 2, Announcement(n))

\* A directory announced after a file whose upload was acknowledged.
C20_Witness ==
  /\ env.mode = "sender"
  /\ Cardinality(Announcements) = 2
  /\ slog[Announcement(1)].packet.id = PacketID_CreateFile
  /\ slog[Announcement(2)].packet.id = PacketID_CreateDirectory
  /\ \E i \in Indices(slog, "send") : slog[i].packet.id = PacketID_FileChunk


\* ------------------------------------------------------------------------
\* C21
\* ------------------------------------------------------------------------

\* The packet the sender wrote next after the one at position j of its log.
SentAfter(j) == LET later == {k \in Indices(slog, "send") : k > j} IN IF later = {} THEN 0 ELSE CHOOSE k \in later : \A m \in later : k <= m

TransferPackets == {PacketID_CreateDirectory, PacketID_CreateFile, PacketID_FileChunk, PacketID_VerifyFile}

AcknowledgedWithin(j, k) == \E m \in Within(slog, j, k, "packet") : slog[m].packet.id = PacketID_Acknowledged

\* C21 as stated: between a CreateDirectory, CreateFile, FileChunk or
\* VerifyFile the sender wrote and the next packet it wrote, it was handed
\* an Acknowledged.
C21_EachPacketAcknowledged ==
  \A j \in Indices(slog, "send") :
    slog[j].packet.id \in TransferPackets /\ SentAfter(j) # 0 => AcknowledgedWithin(j, SentAfter(j))

\* C21: between a CreateDirectory, CreateFile or VerifyFile the sender wrote
\* and the next packet it wrote, it was handed Acknowledged(accepted=true);
\* a FileChunk is not answered: what the sender writes next is the next
\* FileChunk or the VerifyFile, with no packet handed to it in between, and
\* the receiver writes nothing when it handles a FileChunk.
C21_AcknowledgedExceptChunks ==
  /\ \A j \in Indices(slog, "send") :
       SentAfter(j) # 0 =>
         /\ slog[j].packet.id \in TransferPackets \ {PacketID_FileChunk} =>
              \E m \in Within(slog, j, SentAfter(j), "packet") : slog[m].packet = Acknowledged(TRUE)
         /\ slog[j].packet.id = PacketID_FileChunk =>
              /\ Within(slog, j, SentAfter(j), "packet") = {}
              /\ slog[SentAfter(j)].packet.id \in {PacketID_FileChunk, PacketID_VerifyFile}
  /\ \A i \in Indices(rlog, "packet") :
       rlog[i].packet.id = PacketID_FileChunk =>
         \A k \in Indices(rlog, "send") : k > i => Within(rlog, i, k, "frame") # {}

\* The sender wrote two FileChunks and the VerifyFile in a row, and the
\* receiver has written the first chunk to the file without a reply.
C21_Witness ==
  /\ env.mode = "system"
  /\ \E j \in Indices(slog, "send") :
       /\ slog[j].packet.id = PacketID_FileChunk /\ SentAfter(j) # 0
       /\ slog[SentAfter(j)].packet.id = PacketID_FileChunk
       /\ SentAfter(SentAfter(j)) # 0 /\ slog[SentAfter(SentAfter(j))].packet.id = PacketID_VerifyFile
  /\ \E i \in Indices(rlog, "packet") : rlog[i].packet.id = PacketID_FileChunk /\ i < Len(rlog) /\ rlog[i + 1].e = "write"

SenderHoldsUpload == sender.upload # Null

ReceiverHoldsDownload == receiver.download # Null

ReceiverContext ==
  /\ receiver.alive /\ receiver.state \in {"Downloading", "WaitingForHash"} => ReceiverHoldsDownload
  /\ receiver.state \in {"WaitingForHello", "Idle"} => ~ReceiverHoldsDownload

\* C22 as stated: the sender holds an upload context while it waits for the
\* Acknowledged of the CreateFile and while it waits for the Acknowledged of
\* the VerifyFile; the receiver holds a download context from the accepted
\* CreateFile until the hashes compared equal.
C22_ContextUntilAcknowledged ==
  /\ sender.state \in {"WaitingForFileCreationAcknowledgement", "WaitingForUploadAcknowledgement"} => SenderHoldsUpload
  /\ ReceiverContext

\* C22: the sender holds an upload context exactly from the CreateFile it
\* wrote until it has written the file's VerifyFile, that is exactly in
\* WaitingForFileCreationAcknowledgement and no longer in
\* WaitingForUploadAcknowledgement; the receiver, while alive, holds a download
\* context in Downloading and WaitingForHash and none in WaitingForHello and Idle.
C22_ContextUntilVerifyFileWritten ==
  /\ SenderHoldsUpload <=> sender.state = "WaitingForFileCreationAcknowledgement"
  /\ ReceiverContext

C22_Witness ==
  /\ env.mode = "system"
  /\ sender.alive /\ sender.state = "WaitingForUploadAcknowledgement" /\ ~SenderHoldsUpload
  /\ \E j \in Indices(slog, "send") : slog[j].packet.id = PacketID_VerifyFile
  /\ receiver.alive /\ receiver.state = "WaitingForHash" /\ ReceiverHoldsDownload

\* The downloads the receiver began for a CreateFile of declared size 0.
EmptyDownloads == {i \in Indices(rlog, "download") : i > 1 /\ rlog[i - 1].e = "packet" /\ rlog[i - 1].packet.id = PacketID_CreateFile /\ rlog[i - 1].packet.size = U64(0)}

\* The position in log of the first event of kind after position i, 0 if none.
FirstAfter(log, i, kind) == LET later == {k \in Indices(log, kind) : k > i} IN IF later = {} THEN 0 ELSE CHOOSE k \in later : \A m \in later : k <= m

EmptyUploads == {j \in Indices(slog, "send") : slog[j].packet.id = PacketID_CreateFile /\ slog[j].packet.size = U64(0)}

\* C23: for a CreateFile of declared size 0 handled in Idle, the receiver
\* creates the empty file, its next packet written is Acknowledged(true), it
\* is in WaitingForHash when the handler returns and never writes to the file;
\* a FileChunk, even an empty one, as the next packet is a protocol error.
\* The sender, after a CreateFile of size 0, reads no block and writes no
\* FileChunk: the next packet it writes is the VerifyFile of the hash of no
\* bytes, after it was handed Acknowledged(true).
C23_EmptyFileSkipsChunks ==
  /\ \A i \in EmptyDownloads :
       /\ FirstAfter(rlog, i, "send") # 0 => rlog[FirstAfter(rlog, i, "send")].packet = Acknowledged(TRUE)
       /\ \A k \in Indices(rlog, "write") : k > i => Within(rlog, i, k, "download") # {}
       /\ LET k == FirstAfter(rlog, i, "packet")
          IN k # 0 /\ rlog[k].packet.id = PacketID_FileChunk =>
               /\ k < Len(rlog) /\ rlog[k + 1].e = "protocol_error"
               /\ ~receiver.alive
       /\ receiver.alive /\ FirstAfter(rlog, i, "packet") = 0 =>
            /\ receiver.state = "WaitingForHash"
            /\ fs_exists(rfs, rlog[i].path) /\ rfs.files[rlog[i].path] = <<>>
  /\ \A j \in EmptyUploads :
       SentAfter(j) # 0 =>
         /\ slog[SentAfter(j)].packet = VerifyFile(XXH3_64bits_digest(<<>>))
         /\ Within(slog, j, SentAfter(j), "read") = {}
         /\ \E m \in Within(slog, j, SentAfter(j), "packet") : slog[m].packet = Acknowledged(TRUE)

C23_Witness ==
  /\ env.mode = "system"
  /\ \E j \in EmptyUploads : SentAfter(j) # 0
  /\ \E i \in EmptyDownloads : FirstAfter(rlog, i, "send") # 0

\* An empty FileChunk after a CreateFile of size 0 was refused.
C23_EmptyChunkRefused ==
  \E i \in EmptyDownloads :
    LET k == FirstAfter(rlog, i, "packet")
    IN k # 0 /\ rlog[k].packet = FileChunk(<<>>) /\ k < Len(rlog) /\ rlog[k + 1].e = "protocol_error"

\* The events of a call from the first packet handed over up to the next
\* frame delivered.
FirstHandling(ev) ==
  LET p == FirstAfter(ev, 0, "packet")
      n == FirstAfter(ev, p, "frame")
  IN IF p = 0 THEN <<>> ELSE SubSeq(ev, p, IF n = 0 THEN Len(ev) ELSE n - 1)

TransportFailed(ev) == Indices(ev, "error") \cup Indices(ev, "disconnected") # {}

DirectoryAnswered(h, fs) ==
  LET made == fs_is_directory(fs, receive_directory \o <<Slash>> \o h[1].packet.path)
  IN /\ Cardinality(Indices(h, "send")) <= 1
     /\ Indices(h, "send") = {} <=> TransportFailed(h)
     /\ \A k \in Indices(h, "send") : h[k].packet = Acknowledged(made)
     /\ made <=> Indices(h, "protocol_error") = {}

\* C24: a receiver in Idle that is handed CreateDirectory writes exactly one
\* packet in reply, unless the transport fails under it: an Acknowledged
\* whose accepted flag says whether the directory exists under the
\* destination afterwards (a directory already there counts).  When it
\* exists and the transport did not fail, the receiver is alive and in Idle
\* after the call; when it does not, a protocol error was raised and the
\* connection is not alive.
C24_DirectoryAcknowledged ==
  [][/\ last'.who = "receiver" /\ receiver.state = "Idle"
     /\ FirstHandling(last'.ev) # <<>> /\ FirstHandling(last'.ev)[1].packet.id = PacketID_CreateDirectory
     => /\ DirectoryAnswered(FirstHandling(last'.ev), rfs')
        /\ Indices(FirstHandling(last'.ev), "protocol_error") # {} => ~receiver'.alive
        /\ /\ Indices(last'.ev, "protocol_error") = {} /\ ~TransportFailed(last'.ev)
           /\ Cardinality(Indices(last'.ev, "frame")) = 1
           => receiver'.alive /\ receiver'.state = "Idle"]_vars

\* The receiver was asked twice for the same directory and accepted both
\* times, making it once.
C24_Witness ==
  /\ receiver.alive /\ receiver.state = "Idle"
  /\ \E i, k \in Indices(rlog, "packet") :
       /\ i < k /\ rlog[i].packet.id = PacketID_CreateDirectory /\ rlog[k].packet = rlog[i].packet
       /\ rlog[i + 1].e = "mkdir"
       /\ k < Len(rlog) /\ rlog[k + 1].e = "send" /\ rlog[k + 1].packet = Acknowledged(TRUE)

\* A directory that could not be made was answered with accepted=false.
C24_Refused ==
  \E i \in Indices(rlog, "packet") :
    /\ rlog[i].packet.id = PacketID_CreateDirectory /\ ~ContainsColons(rlog[i].packet.path)
    /\ \E k \in Indices(rlog, "send") : k > i /\ rlog[k].packet = Acknowledged(FALSE)

\* The events of a call from the first frame delivered up to the next one.
FirstDelivery(ev) ==
  LET f == FirstAfter(ev, 0, "frame")
      n == FirstAfter(ev, f, "frame")
  IN IF f = 0 THEN <<>> ELSE SubSeq(ev, f, IF n = 0 THEN Len(ev) ELSE n - 1)

\* The state in which the receiver's handler of a packet kind does not raise
\* "unexpected packet"; ReceiverHello and Acknowledged have none.
ReceiverAccepts(id) ==
  CASE id = PacketID_SenderHello -> "WaitingForHello"
    [] id \in {PacketID_CreateDirectory, PacketID_CreateFile} -> "Idle"
    [] id = PacketID_FileChunk -> "Downloading"
    [] id = PacketID_VerifyFile -> "WaitingForHash"
    [] OTHER -> "none"

Unexpected ==
  {"received unexpected ReceiverHello packet", "received unxpected SenderHello packet", "received unexpected SenderHello packet", "received unexpected Acknowledged packet",
   "received unexpected CreateDirectory packet", "received unexpected CreateFile packet", "received unxpected Acknowledged packet",
   "received unexpected FileChunk packet", "received unexpected VerifyFile packet"}

\* The frame was decoded and its handler did not refuse the packet for the
\* state the connection is in.
HandledInState(h) == Indices(h, "packet") # {} /\ \A k \in Indices(h, "protocol_error") : h[k].description \notin Unexpected

RefusedQuietly(h) ==
  /\ Indices(h, "protocol_error") # {}
  /\ Indices(h, "send") = {}
  /\ Indices(h, "mkdir") = {} /\ Indices(h, "download") = {} /\ Indices(h, "write") = {}

ReceiverTakes(ids) ==
  /\ last'.who = "receiver"
  /\ \E p \in PeerPackets : p.id \in ids /\ FirstFrame(last'.ev) = serialize_packet(<<>>, p)
  => IF \E p \in PeerPackets : FirstFrame(last'.ev) = serialize_packet(<<>>, p) /\ receiver.state = ReceiverAccepts(p.id)
     THEN HandledInState(FirstDelivery(last'.ev))
     ELSE RefusedQuietly(FirstDelivery(last'.ev)) /\ ~receiver'.alive

\* C25: a packet that reaches the receiver is handled by its state machine
\* when the receiver is in the one state that accepts its kind (SenderHello
\* in WaitingForHello, CreateDirectory and CreateFile in Idle, FileChunk in
\* Downloading, VerifyFile in WaitingForHash); in any other state, and for
\* ReceiverHello and Acknowledged in every state, a protocol error is raised,
\* nothing is written to the peer, no file or directory is made, and the
\* connection is not alive.
C25_AcceptedInOneState == [][ReceiverTakes(PacketID_ReceiverHello..PacketID_VerifyFile)]_vars

\* The states in which the sender's handler of a packet kind does not raise
\* "unexpected packet".
SenderAccepts(id) ==
  CASE id = PacketID_ReceiverHello -> {"WaitingForHello"}
    [] id = PacketID_Acknowledged -> {"WaitingForDirectoryCreationAcknowledgement", "WaitingForFileCreationAcknowledgement", "WaitingForUploadAcknowledgement"}
    [] OTHER -> {}

SenderTakes(p) ==
  IF sender.state \in SenderAccepts(p.id)
  THEN HandledInState(FirstDelivery(last'.ev))
  ELSE /\ Indices(FirstDelivery(last'.ev), "protocol_error") # {}
       /\ ~sender'.alive
       /\ Indices(last'.ev, "send") = {}
       /\ sender'.current_send_entry = sender.current_send_entry
       /\ sender'.state = sender.state

\* C26: the sender's state machine handles ReceiverHello only in
\* WaitingForHello and Acknowledged only in the three states that wait for an
\* acknowledgement; ReceiverHello or Acknowledged in any other state, and
\* SenderHello, CreateDirectory, CreateFile, FileChunk or VerifyFile in every
\* state, raise a protocol error, leave the position in the listing and the
\* state as they are, and no packet is written.
C26_SenderAcceptsReplies ==
  [][last'.who = "sender" => \A p \in ReplyPackets \cup StrayPackets : FirstFrame(last'.ev) = serialize_packet(<<>>, p) => SenderTakes(p)]_vars

\* The sender, waiting for an acknowledgement with entries left, was handed
\* a packet of a kind only it writes and stopped where it was.
C26_Witness ==
  /\ env.mode = "sender" /\ last.who = "sender" /\ ~sender.alive
  /\ sender.state \in SenderAccepts(PacketID_Acknowledged)
  /\ sender.current_send_entry < Len(sender.send_entries)
  /\ \E k \in Indices(last.ev, "packet") : last.ev[k].packet.id \in {PacketID_CreateDirectory, PacketID_CreateFile, PacketID_FileChunk}

\* The length field of the header at the front of buffered bytes b.
BufferedFrameSize(b) == U32ToNat(bytes_to_u32(SubSeq(b, 5, 8)))

HoldsFrame(b) == Len(b) >= frame_header_size /\ BufferedFrameSize(b) <= Len(b)

\* The i-th event of a call, a FrameReceiver::update, and what the loop of
\* Connection::update did on its answer; alive is alive() at the return.
LoopStep(ev, i, alive) ==
  LET u == ev[i]
      next == FirstAfter(ev, i, "update")
  IN /\ u.result = "ReceivedFrame" =>
          /\ HoldsFrame(u.buffer)
          /\ i < Len(ev) /\ ev[i + 1] = [e |-> "frame", payload |-> SubSeq(u.buffer, frame_header_size + 1, BufferedFrameSize(u.buffer))]
          /\ next # 0 => ev[next].buffer = Drop(u.buffer, BufferedFrameSize(u.buffer))
          /\ next = 0 => ~alive
     /\ u.result = "NeedMoreData" => next = 0 /\ i = Len(ev) /\ ~HoldsFrame(u.buffer) /\ alive
     /\ u.result = "MalformedStream" => next = 0 /\ ~alive

\* One call of Connection::update on connection c over the bytes in flight:
\* c2 and wire2 are the connection and the bytes in flight at the return.
UpdateCall(ev, c, wire, c2, wire2) ==
  LET first == FirstAfter(ev, 0, "update")
  IN /\ Len(wire2) <= Len(wire) /\ wire2 = Drop(wire, Len(wire) - Len(wire2))
     /\ first # 0 => ev[first].buffer = c.frame_receiver.buffer \o Take(wire, Len(wire) - Len(wire2))
     /\ first = 0 => ~c2.alive
     /\ \A i \in Indices(ev, "update") : LoopStep(ev, i, c2.alive)
     /\ \A f \in Indices(ev, "frame") : f > 1 /\ ev[f - 1].e = "update" /\ ev[f - 1].result = "ReceivedFrame"
     /\ QuietAfterNotAlive(ev)
     /\ c2.alive => ~HoldsFrame(c2.frame_receiver.buffer)

\* C27: a call of Connection::update appends the bytes of one transport
\* receive to the reassembly buffer and then hands the state machine the
\* whole frames at the front of the buffer one after the other, in stream
\* order, each taken off the buffer before the next FrameReceiver::update;
\* nothing is handed over after the connection became not alive, and the
\* call returns with the connection alive only after an update that
\* answered NeedMoreData, with no whole frame left in the buffer.
C27_UpdateDeliversBufferedFrames ==
  [][/\ last'.who = "receiver" => UpdateCall(last'.ev, receiver, s2r, receiver', s2r')
     /\ last'.who = "sender" /\ env.started => UpdateCall(last'.ev, sender, r2s, sender', r2s')]_vars

\* A call took two frames off the stream, handed both over and returned
\* alive.
C27_Witness ==
  /\ last.who \in {"receiver", "sender"}
  /\ Cardinality(Indices(last.ev, "frame")) = 2
  /\ (IF last.who = "receiver" THEN receiver.alive ELSE sender.alive)
  /\ last.ev[Len(last.ev)].e = "update" /\ last.ev[Len(last.ev)].result = "NeedMoreData"

\* The payloads of the FileChunk packets written at the positions S of the
\* sender's log, one after the other.
RECURSIVE CatSent(_)
CatSent(S) == IF S = {} THEN <<>> ELSE LET m == CHOOSE i \in S : \A j \in S : j <= i IN CatSent(S \ {m}) \o slog[m].packet.data

FileUploads == {j \in Indices(slog, "send") : slog[j].packet.id = PacketID_CreateFile}

\* Where the sender's log goes on to the next entry after position j.
NextAnnounced(j) ==
  LET later == {k \in Indices(slog, "send") : k > j /\ slog[k].packet.id \in {PacketID_CreateDirectory, PacketID_CreateFile}}
  IN IF later = {} THEN Len(slog) + 1 ELSE CHOOSE k \in later : \A m \in later : k <= m

SentWithin(j, id) == {k \in Within(slog, j, NextAnnounced(j), "send") : slog[k].packet.id = id}

UploadOf(j) ==
  LET chunks == SentWithin(j, PacketID_FileChunk)
      reads == Within(slog, j, NextAnnounced(j), "read")
      verifies == SentWithin(j, PacketID_VerifyFile)
  IN /\ slog[j].packet.flags = 0
     /\ \A k \in chunks :
          /\ slog[k].packet.data # <<>> /\ Len(slog[k].packet.data) <= max_chunk_size
          /\ k < Len(slog) /\ slog[k + 1] = [e |-> "read", data |-> slog[k].packet.data]
          /\ (\E m \in chunks : m > k) => Len(slog[k].packet.data) = max_chunk_size
          /\ \E a \in Within(slog, j, k, "packet") : slog[a].packet = Acknowledged(TRUE)
     /\ \A k \in reads : k - 1 \in chunks
     /\ Cardinality(verifies) <= 1
     /\ \A v \in verifies :
          /\ \A k \in chunks : k < v
          /\ \E a \in Within(slog, j, v, "packet") : slog[a].packet = Acknowledged(TRUE)
          /\ slog[v].packet.hash = XXH3_64bits_digest(CatSent(chunks))
          /\ CatSent(chunks) = CatData(slog, reads)
          /\ Len(CatSent(chunks)) >= U32ToNat(<<slog[j].packet.size[3], slog[j].packet.size[4]>>)

\* C28: every CreateFile the sender writes has flags 0; after its
\* Acknowledged(true) the sender writes one FileChunk for each block it
\* reads, non-empty, of max_chunk_size bytes but for the last, carrying
\* exactly the block that is fed to the hasher, then at most one VerifyFile
\* with the hash of the blocks, and it is in WaitingForUploadAcknowledgement
\* exactly when the VerifyFile is the last thing it wrote and nothing came
\* back since.
C28_ChunksAreBlocksRead ==
  /\ \A j \in FileUploads : UploadOf(j)
  /\ sender.state = "WaitingForUploadAcknowledgement" <=>
       /\ Indices(slog, "send") # {}
       /\ \E v \in Indices(slog, "send") :
            /\ slog[v].packet.id = PacketID_VerifyFile
            /\ \A k \in DOMAIN slog : k > v => slog[k].e \notin {"send", "packet"} \/ (slog[k].e = "packet" /\ slog[k].packet # Acknowledged(TRUE))

\* A file of more than one block was written out in two FileChunks and a
\* VerifyFile, and the sender waits for the acknowledgement.
C28_Witness ==
  /\ sender.alive /\ sender.state = "WaitingForUploadAcknowledgement"
  /\ \E j \in FileUploads :
       /\ NextAnnounced(j) = Len(slog) + 1
       /\ Cardinality(SentWithin(j, PacketID_FileChunk)) = 2
       /\ SentWithin(j, PacketID_VerifyFile) # {}

\* Longest of the short paths and payloads framed below.
MaxShortPath == 40

\* Lengths of a path or payload: short ones, and those whose frame is one
\* byte under, exactly at and one byte over frame_max_size.
EdgeSizes(overhead) == (0..MaxShortPath) \cup {frame_max_size - overhead - 1, frame_max_size - overhead, frame_max_size - overhead + 1}

PathOf(n) == [i \in 1..n |-> 100]

\* A FrameReceiver of the peer taking a frame off the transport: receive and
\* update, and once more when the first span did not hold all of it.
Reassembled(frame) ==
  LET span == FrameReceiverInit.receive_buffer_size
      u1 == FrameReceiver_update(receive(FrameReceiverInit, Take(frame, span)))
      u2 == FrameReceiver_update(receive(u1.fr, Take(Drop(frame, span), u1.fr.receive_buffer_size)))
  IN IF frame = <<>> THEN [result |-> "none", frame |-> <<>>]
     ELSE IF u1.result = "NeedMoreData" /\ Len(frame) > span THEN [result |-> u2.result, frame |-> u2.frame]
     ELSE [result |-> u1.result, frame |-> u1.frame]

\* What a call left behind: the connection, what went to the transport and
\* what the peer's reassembler makes of it.
Outcome(x, payload) ==
  LET got == Reassembled(x.out)
  IN [state |-> x.c.state, alive |-> x.c.alive, position |-> x.c.current_send_entry, written |-> Len(x.out),
      errors |-> {x.ev[i].type : i \in Indices(x.ev, "error")},
      result |-> got.result, intact |-> got.frame = payload]

\* A sender whose listing is one directory with a path of n bytes is handed
\* ReceiverHello and announces the directory.
Announce ==
  /\ codec.phase = "path"
  /\ \E x \in {Connection_update(Context(SenderConnection(<<Dir(PathOf(codec.size))>>), EmptyDisk, NoFailure[1], NoFailure[2], FALSE), [status |-> "ok", data |-> FramePacket(ReceiverHello)])} :
       codec' = [phase |-> "announced", size |-> codec.size, outcome |-> Outcome(x, serialize_packet(<<>>, CreateDirectory(PathOf(codec.size))))]
  /\ UNCHANGED <<sender, receiver, sfs, rfs, s2r, r2s, env, last, slog, rlog, workers>>

\* prepare(), a payload of n bytes written, finalize().
Finalize ==
  /\ codec.phase = "payload"
  /\ \E frame \in {FramePayload(PathOf(codec.size))} :
       codec' = [phase |-> "finalized", size |-> codec.size, written |-> Len(frame), result |-> Reassembled(frame).result, intact |-> Reassembled(frame).frame = PathOf(codec.size)]
  /\ UNCHANGED <<sender, receiver, sfs, rfs, s2r, r2s, env, last, slog, rlog, workers>>

InitFinalize ==
  /\ workers = NoWorkers
  /\ sender = SenderConnection(<<>>) /\ sfs = EmptyDisk
  /\ receiver = ReceiverConnection /\ rfs = ReceiverDisk
  /\ s2r = <<>> /\ r2s = <<>>
  /\ env = Env("finalize")
  /\ last = NoLast /\ slog = <<>> /\ rlog = <<>>
  /\ \/ \E n \in EdgeSizes(frame_header_size + 2) : codec = [phase |-> "path", size |-> n]
     \/ \E n \in EdgeSizes(frame_header_size) : codec = [phase |-> "payload", size |-> n]

NextFinalize == Announce \/ Finalize

SpecFinalize == InitFinalize /\ [][NextFinalize]_vars

FrameRefused(total) == total <= frame_header_size \/ total > frame_max_size

\* C29: when the frame of a CreateDirectory would be longer than
\* frame_max_size, send_packet writes nothing to the transport, the
\* connection is not alive after one error of type FramingSendError, and the
\* sender stays in Idle at the entry instead of waiting for the
\* acknowledgement; finalize() refuses exactly the frames of a total size
\* <= frame_header_size or > frame_max_size, and every frame it does yield
\* is taken by the peer's FrameReceiver as one frame with the same payload.
C29_OversizeFrameNotSent ==
  /\ codec.phase = "announced" =>
       IF FrameRefused(frame_header_size + 2 + codec.size)
       THEN /\ codec.outcome.written = 0 /\ codec.outcome.result = "none"
            /\ ~codec.outcome.alive /\ codec.outcome.errors = {"FramingSendError"}
            /\ codec.outcome.state = "Idle" /\ codec.outcome.position = 0
       ELSE /\ codec.outcome.written = frame_header_size + 2 + codec.size
            /\ codec.outcome.alive /\ codec.outcome.errors = {}
            /\ codec.outcome.state = "WaitingForDirectoryCreationAcknowledgement"
            /\ codec.outcome.result = "ReceivedFrame" /\ codec.outcome.intact
  /\ codec.phase = "finalized" =>
       IF FrameRefused(frame_header_size + codec.size)
       THEN codec.written = 0 /\ codec.result = "none"
       ELSE codec.written = frame_header_size + codec.size /\ codec.result = "ReceivedFrame" /\ codec.intact

\* The sender tried to announce a directory whose frame is one byte longer
\* than frame_max_size.
C29_Witness ==
  /\ codec.phase = "announced" /\ frame_header_size + 2 + codec.size = frame_max_size + 1
  /\ ~codec.outcome.alive /\ codec.outcome.written = 0

\* buffer.size() of a connection's FrameReceiver, and its receive window:
\* receive_buffer_size starts at the initial window and is raised to every
\* frame length a header announced, so it is the larger of the initial
\* window and the largest frame length seen.
BufferSize(c) == c.frame_receiver.capacity

ReceiveWindow(c) == c.frame_receiver.receive_buffer_size

\* C30 as stated: the size of the reassembly buffer never decreases and
\* never exceeds the larger of the initial receive window and the largest
\* frame length seen on the connection.
C30_BufferWithinWindow ==
  [][/\ BufferSize(receiver') >= BufferSize(receiver)
     /\ BufferSize(receiver') <= ReceiveWindow(receiver')]_vars

\* C30: the size of the reassembly buffer never decreases; a receive makes
\* it at least the bytes buffered plus the receive window, update and
\* discard_frame leave it alone, and it stays below twice the larger of the
\* initial receive window and the largest frame length seen.
C30_BufferGrowsToTailPlusWindow ==
  [][/\ BufferSize(receiver') >= BufferSize(receiver)
     /\ ReceiveWindow(receiver') >= ReceiveWindow(receiver)
     /\ ReceiveWindow(receiver') >= FrameReceiverInit.receive_buffer_size
     /\ last'.who = "receiver" => BufferSize(receiver') = Max(BufferSize(receiver), Len(receiver.frame_receiver.buffer) + ReceiveWindow(receiver))
     /\ last'.who # "receiver" => BufferSize(receiver') = BufferSize(receiver)
     /\ BufferSize(receiver') < 2 * ReceiveWindow(receiver')
     /\ Len(receiver'.frame_receiver.buffer) <= BufferSize(receiver')]_vars

\* A frame came in byte by byte and was handed over and discarded; the
\* buffer is longer than the window.
C30_Witness ==
  /\ FramesDelivered(rlog) # <<>>
  /\ receiver.frame_receiver.buffer = <<>>
  /\ BufferSize(receiver) > ReceiveWindow(receiver)

\* C31: a receiver in WaitingForHash that is handed, alone in a call and
\* with the transport working, the VerifyFile of the hash of what it has
\* written answers Acknowledged(accepted=true), is alive and in Idle with no
\* download context afterwards (the state that takes CreateDirectory and
\* CreateFile), and the file is on disk as written.
C31_MatchingHashAccepted ==
  [][/\ last'.who = "receiver" /\ receiver.state = "WaitingForHash"
     /\ FirstFrame(last'.ev) = serialize_packet(<<>>, VerifyFile(XXH3_64bits_digest(receiver.download_hasher)))
     /\ Cardinality(Indices(last'.ev, "frame")) = 1 /\ ~TransportFailed(last'.ev)
     => /\ \E k \in Indices(last'.ev, "send") : last'.ev[k].packet = Acknowledged(TRUE)
        /\ receiver'.alive /\ receiver'.state = "Idle" /\ receiver'.download = Null
        /\ receiver.download.fs_path \in DOMAIN rfs'.files
        /\ rfs'.files[receiver.download.fs_path] = rfs.files[receiver.download.fs_path]]_vars

\* The CreateFile the sender wrote last, 0 if none.
LastUpload == IF FileUploads = {} THEN 0 ELSE CHOOSE j \in FileUploads : \A k \in FileUploads : k <= j

SenderStopped == ~sender.alive /\ sender.state # "Finished"

\* C32: after the sender failed to open a listed file it has written no
\* CreateFile for that entry; after a read gave less than a full block short
\* of the declared size it has written only the full blocks read before,
\* fewer bytes than declared, and no VerifyFile for the file; either way
\* the protocol error is the last thing it did, it is not alive and it is
\* not Finished.
C32_UnreadableFileStopsSender ==
  \A k \in Indices(slog, "protocol_error") :
    /\ slog[k].description = "failed to open file for reading" =>
         /\ k = Len(slog) /\ SenderStopped
         /\ sender.state = "Idle"
         /\ sender.send_entries[sender.current_send_entry + 1].type = "File"
         /\ \A j \in Indices(slog, "send") : slog[j].entry # sender.current_send_entry \/ slog[j].packet.id = PacketID_SenderHello
    /\ slog[k].description = "failed to read file" =>
         /\ k = Len(slog) /\ SenderStopped
         /\ sender.state = "WaitingForFileCreationAcknowledgement"
         /\ LastUpload # 0 /\ slog[LastUpload].entry = sender.current_send_entry
         /\ SentWithin(LastUpload, PacketID_VerifyFile) = {}
         /\ \A c \in SentWithin(LastUpload, PacketID_FileChunk) : Len(slog[c].packet.data) = max_chunk_size
         /\ Len(CatSent(SentWithin(LastUpload, PacketID_FileChunk))) < sender.upload.file_size

\* A file shrank under the upload: a full block went out and the next read
\* came back short.
C32_Witness ==
  /\ SenderStopped
  /\ slog # <<>> /\ slog[Len(slog)].e = "protocol_error" /\ slog[Len(slog)].description = "failed to read file"
  /\ SentWithin(LastUpload, PacketID_FileChunk) # {}

\* A listed file could not be opened.
C32_OpenFailed ==
  /\ SenderStopped
  /\ slog # <<>> /\ slog[Len(slog)].e = "protocol_error" /\ slog[Len(slog)].description = "failed to open file for reading"
  /\ sender.current_send_entry > 0

\* The bytes the receiver wrote to the file of the download opened at
\* rlog[i], in rlog[i + 1 .. to - 1].
WrittenWithin(i, to) == Len(CatData(rlog, Within(rlog, i, to, "write")))

\* C33 as stated: for a download of declared size N the bytes written to
\* the file never exceed N, the write of an over-running chunk included.
C33_WrittenWithinDeclared ==
  \A i \in Indices(rlog, "download") : ~WordsLess(DeclaredSize(i), U64(WrittenWithin(i, ContextEnd(i))))

\* C33: while a download of declared size N holds its context the file on
\* disk is exactly what was written, at most N bytes; a chunk that takes the
\* bytes written past N is written, and the protocol error and the removal
\* of the file follow in the same step.
C33_FileWithinDeclaredAtRest ==
  \A i \in Indices(rlog, "download") :
    LET N == DeclaredSize(i)
        end == ContextEnd(i)
    IN /\ end = Len(rlog) + 1 =>
            /\ rlog[i].path \in DOMAIN rfs.files
            /\ Len(rfs.files[rlog[i].path]) = WrittenWithin(i, end)
            /\ ~WordsLess(N, U64(WrittenWithin(i, end)))
       /\ \A k \in Within(rlog, i, end, "write") :
            /\ ~WordsLess(N, U64(WrittenWithin(i, k)))
            /\ WordsLess(N, U64(WrittenWithin(i, k + 1))) =>
                 /\ end = k + 2
                 /\ rlog[k + 1].e = "protocol_error" /\ rlog[k + 1].description = "got more file data than expected"
                 /\ rlog[end].e = "cleanup" /\ rlog[end].path = rlog[i].path
                 /\ rlog[i].path \notin DOMAIN rfs.files
                 /\ ~receiver.alive

\* A chunk of 2 bytes was written for a download that declared 1.
C33_Witness ==
  \E i \in Indices(rlog, "download") :
    /\ DeclaredSize(i) = U64(1)
    /\ WrittenWithin(i, ContextEnd(i)) = 2
    /\ rlog[i].path \notin DOMAIN rfs.files

\* The bytes the first n frames of the stream take.
RECURSIVE FramedSize(_)
FramedSize(n) == IF n = 0 THEN 0 ELSE FramedSize(n - 1) + frame_header_size + Len(env.payloads[n])

\* The bytes taken off the stream so far, and the frames that lie wholly
\* within them.
Received == Len(env.stream) - Len(s2r)

WholeFrames == Cardinality({n \in DOMAIN env.payloads : FramedSize(n) <= Received})

\* C34: for a stream of several frames delivered in any segmentation, the
\* payloads handed on are the payloads framed, in their order, none twice
\* and none merged; while the connection is alive they are those of every
\* frame received whole, and the buffer holds what was received of the next.
C34_FramesReassembled ==
  env.kind = "frames" =>
    /\ FramesDelivered(rlog) = SubSeq(env.payloads, 1, Len(FramesDelivered(rlog)))
    /\ Len(FramesDelivered(rlog)) <= WholeFrames
    /\ receiver.alive =>
         /\ Len(FramesDelivered(rlog)) = WholeFrames
         /\ receiver.frame_receiver.buffer = SubSeq(env.stream, FramedSize(WholeFrames) + 1, Received)

\* One receive brought the first and the second frame and the head of the
\* third.
C34_Witness ==
  /\ env.kind = "frames" /\ Len(env.payloads) = 3 /\ receiver.alive
  /\ Cardinality(Indices(last.ev, "frame")) = 2
  /\ FramesDelivered(last.ev) = SubSeq(env.payloads, 1, 2)
  /\ receiver.frame_receiver.buffer # <<>>

\* Every frame of the longest stream was handed on.
C34_AllDelivered ==
  /\ env.kind = "frames" /\ Len(env.payloads) = MaxStreamFrames /\ s2r = <<>>
  /\ FramesDelivered(rlog) = env.payloads
  /\ Cardinality(Indices(last.ev, "frame")) = 1

\* The destination of a CreateFile on the receiver's disk.
DestinationOf(packet) == receive_directory \o <<Slash>> \o packet.path

\* C35: a receiver in Idle that is handed a CreateFile whose destination is
\* on its disk already raises the protocol error "already exists", answers
\* Acknowledged(accepted=false) when the transport carries it, opens no
\* download, cleans nothing up and leaves the disk, the file that was there
\* included, as it was; it is not alive afterwards.
C35_ExistingFileKept ==
  [][/\ last'.who = "receiver" /\ receiver.state = "Idle"
     /\ FirstHandling(last'.ev) # <<>> /\ FirstHandling(last'.ev)[1].packet.id = PacketID_CreateFile
     /\ ~ContainsColons(FirstHandling(last'.ev)[1].packet.path)
     /\ fs_exists(rfs, DestinationOf(FirstHandling(last'.ev)[1].packet))
     => /\ \E k \in Indices(last'.ev, "protocol_error") : last'.ev[k].description = "path already exists"
        /\ ~TransportFailed(last'.ev) => \E k \in Indices(last'.ev, "send") : last'.ev[k].packet = Acknowledged(FALSE)
        /\ \A k \in Indices(last'.ev, "send") : last'.ev[k].packet = Acknowledged(FALSE)
        /\ Indices(last'.ev, "download") \cup Indices(last'.ev, "cleanup") \cup Indices(last'.ev, "write") = {}
        /\ rfs' = rfs
        /\ ~receiver'.alive /\ receiver'.download = Null]_vars

\* A CreateFile for the file that was on the disk before the connection was
\* refused, and the file is there with its bytes.
C35_Witness ==
  /\ last.who = "receiver" /\ ~receiver.alive
  /\ \E i \in Indices(last.ev, "packet") : last.ev[i].packet.id = PacketID_CreateFile /\ DestinationOf(last.ev[i].packet) = receive_directory \o <<Slash>> \o PathDF
  /\ \E k \in Indices(last.ev, "protocol_error") : last.ev[k].description = "path already exists"
  /\ \E k \in Indices(last.ev, "send") : last.ev[k].packet = Acknowledged(FALSE)
  /\ receive_directory \o <<Slash>> \o PathDF \in DOMAIN rfs.files
  /\ rfs.files[receive_directory \o <<Slash>> \o PathDF] = <<9>>

\* ------------------------------------------------------------------------
\* Two connections of one receiver
\* ------------------------------------------------------------------------

\* Receiver::run detaches one thread per accepted connection; the threads
\* share the receive directory and nothing else.  A thread is at "update"
\* between packets and at "open" between the std::filesystem::exists probe
\* of start_file_download and its base::File{fs_path, "wb"}.
Workers == {1, 2}

Worker == [c |-> ReceiverConnection, pc |-> "update", packet |-> Null, kept |-> <<>>]

SharedPackets ==
  {SenderHello, CreateDirectory(PathD), FileChunk(<<1>>), FileChunk(<<1, 1>>), VerifyFile(XXH3_64bits_digest(<<1>>))}
  \cup {CreateFile(PathG, U64(n), 0) : n \in 0..2}

WorkerContext(w) == Context(workers[w].c, rfs, 0, "none", FALSE)

\* start_file_download from base::File{fs_path, "wb"} on.
start_file_download_open(x0, fs_path, virtual_path, file_size, flags) ==
  LET t == FsOp(x0)
      is_compressed == (flags % 2) # 0
      opened == Event([t EXCEPT !.fs = fs_put(t.fs, fs_path, <<>>),
                                !.c.state = "Downloading",
                                !.c.download = [virtual_path |-> virtual_path, fs_path |-> fs_path, file_size |-> file_size, downloaded_size |-> 0, is_compressed |-> is_compressed],
                                !.c.download_hasher = <<>>],
                      [e |-> "download", path |-> fs_path, replaced |-> t.c.download # Null])
  IN IF ~fs_can_open_for_write(t.fs, fs_path) THEN Return(protocol_error(t, "failed to open file for writing"), FALSE)
     ELSE Return(IF file_size = U64(0) THEN finish_chunks_download(opened) ELSE opened, TRUE)

\* The thread is about to run start_file_download past its probes: the
\* packet is a CreateFile taken in Idle, its path converts and nothing
\* exists there.
Probed(w, packet) ==
  /\ packet.id = PacketID_CreateFile /\ workers[w].c.state = "Idle"
  /\ ~ContainsColons(packet.path)
  /\ ~fs_exists(rfs, receive_directory \o <<Slash>> \o packet.path)

\* The files a call verified and acknowledged with accepted=true, with
\* their bytes.
Verified(x, kept) ==
  LET paths == {x.ev[i].path : i \in Indices(x.ev, "verified")}
      acked == \E k \in Indices(x.ev, "send") : x.ev[k].packet = Acknowledged(TRUE)
  IN [q \in DOMAIN kept \cup (IF acked THEN paths ELSE {}) |-> IF q \in paths THEN x.fs.files[q] ELSE kept[q]]

\* The write of a FileChunk by this thread appends to the file at its path:
\* the file is there and the thread's handle stands at its end.  (A write
\* through a handle whose file another thread has unlinked or written to
\* goes elsewhere; the disk of the model has no place for it, and the
\* thread is not followed further.)
Appends(w, packet) ==
  packet.id = PacketID_FileChunk /\ workers[w].c.state = "Downloading" =>
    /\ workers[w].c.download.fs_path \in DOMAIN rfs.files
    /\ Len(rfs.files[workers[w].c.download.fs_path]) = workers[w].c.download.downloaded_size

\* A thread takes one packet off its connection and handles it, up to the
\* exists probe when the packet opens a download.
WorkerUpdate(w) ==
  /\ workers[w].pc = "update" /\ workers[w].c.alive
  /\ \E packet \in SharedPackets :
       /\ Appends(w, packet)
       /\ IF Probed(w, packet)
          THEN /\ workers' = [workers EXCEPT ![w].pc = "open", ![w].packet = packet]
               /\ rfs' = rfs
          ELSE \E x \in {on_packet_received(WorkerContext(w), serialize_packet(<<>>, packet))} :
                 /\ workers' = [workers EXCEPT ![w].c = x.c, ![w].kept = Verified(x, workers[w].kept)]
                 /\ rfs' = x.fs
  /\ UNCHANGED <<sender, receiver, sfs, s2r, r2s, env, last, slog, rlog, codec>>

\* The thread goes on from the probe: it opens the file and answers.
WorkerOpen(w) ==
  /\ workers[w].pc = "open"
  /\ \E opened \in {start_file_download_open(WorkerContext(w), receive_directory \o <<Slash>> \o workers[w].packet.path, workers[w].packet.path, workers[w].packet.size, workers[w].packet.flags)} :
     \E x \in {send_packet(opened, Acknowledged(opened.ret))} :
       /\ workers' = [workers EXCEPT ![w].c = x.c, ![w].pc = "update", ![w].packet = Null]
       /\ rfs' = x.fs
  /\ UNCHANGED <<sender, receiver, sfs, s2r, r2s, env, last, slog, rlog, codec>>

\* The peer of a connection goes away: its next receive is a disconnect.
WorkerDisconnected(w) ==
  /\ workers[w].pc = "update" /\ workers[w].c.alive
  /\ \E x \in {Connection_update(WorkerContext(w), [status |-> "disconnected"])} :
       /\ workers' = [workers EXCEPT ![w].c = x.c]
       /\ rfs' = x.fs
  /\ UNCHANGED <<sender, receiver, sfs, s2r, r2s, env, last, slog, rlog, codec>>

InitShared ==
  /\ workers = [w \in Workers |-> Worker]
  /\ sender = SenderConnection(<<>>) /\ sfs = EmptyDisk
  /\ receiver = ReceiverConnection /\ rfs = ReceiverDisk
  /\ s2r = <<>> /\ r2s = <<>>
  /\ env = Env("shared")
  /\ last = NoLast /\ slog = <<>> /\ rlog = <<>>
  /\ codec = NoCodec

NextShared == \E w \in Workers : WorkerUpdate(w) \/ WorkerOpen(w) \/ WorkerDisconnected(w)

SpecShared == InitShared /\ [][NextShared]_vars

\* C36: of two connections of one receiver on one directory, a file one of
\* them verified and acknowledged with accepted=true is on the disk with
\* its bytes, and the two never hold download contexts for the same path.
C36_ConnectionsApart ==
  /\ \A w \in Workers : \A q \in DOMAIN workers[w].kept : q \in DOMAIN rfs.files /\ rfs.files[q] = workers[w].kept[q]
  /\ \A v, w \in Workers :
       v # w /\ workers[v].c.download # Null /\ workers[w].c.download # Null => workers[v].c.download.fs_path # workers[w].c.download.fs_path

\* One connection has written its file in full while the other, which holds
\* the same path, has taken the file away under it.
C36_FileTakenAway ==
  \E v, w \in Workers :
    /\ v # w /\ workers[v].c.alive /\ workers[v].c.state = "WaitingForHash"
    /\ workers[v].c.download.fs_path \notin DOMAIN rfs.files
    /\ ~workers[w].c.alive

\* C37: when the sender has written VerifyFile for a file, the bytes it
\* shipped in FileChunk packets, which are the bytes it read and hashed,
\* are as many as the size it declared in CreateFile, the file having grown
\* or shrunk since the size was taken or not.
C37_ShippedIsDeclared ==
  \A j \in FileUploads :
    SentWithin(j, PacketID_VerifyFile) # {} =>
      /\ U64(Len(CatSent(SentWithin(j, PacketID_FileChunk)))) = slog[j].packet.size
      /\ Len(CatData(slog, Within(slog, j, NextAnnounced(j), "read"))) = Len(CatSent(SentWithin(j, PacketID_FileChunk)))

\* A file declared with 1 byte went out as one full block and a VerifyFile.
C37_Overshoot ==
  \E j \in FileUploads :
    /\ SentWithin(j, PacketID_VerifyFile) # {}
    /\ slog[j].packet.size = U64(1)
    /\ Len(CatSent(SentWithin(j, PacketID_FileChunk))) = max_chunk_size

\* C38: an alive receiver holds a download context exactly in Downloading
\* and WaitingForHash; in Downloading it has received fewer plaintext bytes
\* than declared, in WaitingForHash as many; a receiver that is not alive
\* holds none.
C38_ReceiverStateAndContext ==
  /\ receiver.alive =>
       /\ receiver.download # Null <=> receiver.state \in {"Downloading", "WaitingForHash"}
       /\ receiver.state = "Downloading" => WordsLess(U64(receiver.download.downloaded_size), receiver.download.file_size)
       /\ receiver.state = "WaitingForHash" => U64(receiver.download.downloaded_size) = receiver.download.file_size
  /\ ~receiver.alive => receiver.download = Null

\* Half of a file of 2 bytes has arrived.
C38_Witness ==
  /\ receiver.alive /\ receiver.state = "Downloading"
  /\ receiver.download # Null
  /\ receiver.download.file_size = U64(2) /\ receiver.download.downloaded_size = 1

\* The receiver stopped while it held a download.
C38_StoppedWhileDownloading ==
  /\ ~receiver.alive /\ receiver.state = "WaitingForHash" /\ receiver.download = Null
  /\ Indices(rlog, "cleanup") # {}

\* Both connections are alive and sit in receive() with nothing on the way
\* to either of them.
BothBlocked ==
  /\ env.started
  /\ sender.alive /\ receiver.alive
  /\ s2r = <<>> /\ r2s = <<>>

\* C39: once the sender has started, the system of one sender and one
\* receiver over a transport that does not fail is never in a state where
\* both are alive and wait to receive while nothing is in flight either way.
C39_NoDeadlock == env.mode = "system" => ~BothBlocked

\* The receiver has answered the sender's last packet and waits for the
\* next, which the sender is about to be handed the answer for.
C39_Witness ==
  /\ env.mode = "system" /\ env.started
  /\ sender.alive /\ sender.state = "WaitingForDirectoryCreationAcknowledgement"
  /\ receiver.alive /\ receiver.state = "Idle"
  /\ s2r = <<>> /\ r2s # <<>>

\* The Acknowledged packets written among the events h.
AcksIn(h) == {k \in Indices(h, "send") : h[k].packet.id = PacketID_Acknowledged}

\* The payloads of the VerifyFile packets a peer may write.
VerifyFilePayloads == {serialize_packet(<<>>, p) : p \in {q \in PeerPackets : q.id = PacketID_VerifyFile} \cup {VerifyFile(XXH3_64bits_digest(d)) : d \in FileContents}}

\* The first frame of the call holds a packet of the kinds `ids` that asks
\* for an Acknowledged, and the receiver is in the state that accepts it.
Requested(ids) ==
  \/ /\ receiver.state = "Idle"
     /\ \E k \in Indices(FirstDelivery(last'.ev), "packet") : FirstDelivery(last'.ev)[k].packet.id \in ids \cap {PacketID_CreateDirectory, PacketID_CreateFile}
  \/ /\ receiver.state = "WaitingForHash" /\ PacketID_VerifyFile \in ids
     /\ FirstFrame(last'.ev) \in VerifyFilePayloads

\* The receiver writes one Acknowledged for a request of the kinds `ids`
\* taken in the expected state (when the transport carries it) and none for
\* anything else.
ReceiverAnswers(ids) ==
  last'.who = "receiver" /\ FirstDelivery(last'.ev) # <<>>
  => IF Requested(ids)
     THEN /\ Cardinality(AcksIn(FirstDelivery(last'.ev))) <= 1
          /\ ~TransportFailed(last'.ev) => Cardinality(AcksIn(FirstDelivery(last'.ev))) = 1
     ELSE AcksIn(FirstDelivery(last'.ev)) = {}

\* The requests the sender wrote before position i of its log.
RequestsBefore(i) == {j \in Indices(slog, "send") : j < i /\ slog[j].packet.id \in {PacketID_CreateDirectory, PacketID_CreateFile, PacketID_VerifyFile}}

AcknowledgedUpTo(i) == {k \in Indices(slog, "packet") : k <= i /\ slog[k].packet.id = PacketID_Acknowledged}

\* With the receiver as its peer, the sender has written k requests when it
\* is handed its k-th Acknowledged, and the request was pending.
SenderPaired ==
  env.mode = "system" =>
    \A i \in Indices(slog, "packet") :
      slog[i].packet.id = PacketID_Acknowledged => Cardinality(RequestsBefore(i)) = Cardinality(AcknowledgedUpTo(i))

\* C40: the receiver writes exactly one Acknowledged for each
\* CreateDirectory, CreateFile and VerifyFile it is handed in the expected
\* state, and none for any other packet or in any other state; the k-th
\* Acknowledged the sender is handed follows its k-th request, and none
\* arrives with no request pending.
C40_OneAcknowledgedPerRequest ==
  [][ReceiverAnswers({PacketID_CreateDirectory, PacketID_CreateFile, PacketID_VerifyFile}) /\ SenderPaired']_vars

=============================================================================
